---- MODULE Spec2Model ----
(***************************************************************************)
(* schemagen: a generator of JSON values from a JSON Schema.               *)
(*                                                                         *)
(* The model follows src/schema.go: a schema document is parsed into a     *)
(* Schema tree (ParseSchema), the tree is validated (ValidateWithDetails,  *)
(* Validate) and a Generator, which owns a seeded math/rand stream and a   *)
(* seeded gofakeit stream, walks the tree recursively                      *)
(* (generateWithContext and the functions it dispatches to).               *)
(*                                                                         *)
(* Representation.  Every JSON value and every Go value of dynamic type is *)
(* a record with a tag t: Nil (Go nil, JSON null), Bool, Num (a float64),  *)
(* Itg (an int or int64), Str, Arr (a slice), Obj (a JSON object, a Go     *)
(* map).  Numbers are fixed-point: the integer n stands for n / Scale, so  *)
(* that Ceil, Floor and Round are the rounding the code performs.          *)
(***************************************************************************)
EXTENDS Integers, Sequences, FiniteSets, TLC

\* ---------------------------------------------------------------- bounds
Scale == 2        \* fixed-point resolution: n stands for n / Scale
MaxSeed == 2      \* seeds are 0..MaxSeed
RandMod == 16     \* number of states of the math/rand stream
FakerMod == 8     \* number of states of the gofakeit stream
MaxNum == 3       \* numeric keywords range over -1..MaxNum (in units of 1/Scale)
MaxLen == 5       \* length keywords range over 0..MaxLen
MaxPat == 2       \* the pattern generator's own clock-seeded choices

\* ---------------------------------------------------------------- values
Nil == [t |-> "nil"]
Bool(b) == [t |-> "bool", v |-> b]
Num(n) == [t |-> "num", v |-> n]
Itg(n) == [t |-> "int", v |-> n]
Str(s) == [t |-> "str", v |-> s]
Arr(s) == [t |-> "arr", v |-> s]
Obj(f) == [t |-> "obj", v |-> f]

\* A whole number k as a JSON number.
N(k) == Num(k * Scale)

IsNil(x) == x.t = "nil"

Max2(a, b) == IF a > b THEN a ELSE b

\* F applied to the value of e, with e evaluated once.
Let(e, F(_)) == CHOOSE y \in {F(x) : x \in {e}} : TRUE

\* math.Floor, math.Ceil on fixed-point numbers (\div rounds down).
Floor(x) == (x \div Scale) * Scale
Ceil(x) == -(((-x) \div Scale) * Scale)
\* int64(f): truncation toward zero, result in whole units.
Trunc(x) == IF x >= 0 THEN x \div Scale ELSE -((-x) \div Scale)
\* math.Round(a / b) for b > 0: half away from zero.
RoundDiv(a, b) == IF a >= 0 THEN (2 * a + b) \div (2 * b) ELSE -((2 * (-a) + b) \div (2 * b))

\* ---------------------------------------------------------------- Schema
StringOrArray(single, multiple, isArray) ==
    [Single |-> single, Multiple |-> multiple, IsArray |-> isArray]

\* StringOrArray.GetTypes
GetTypes(s) ==
    IF ~s.IsArray
    THEN IF s.Single = "" THEN <<>> ELSE <<s.Single>>
    ELSE s.Multiple

\* Empty only as a single string, an empty sequence taken for a type.
IsEmptySingle(s) == ~s.IsArray /\ s.Single = ""

\* StringOrArray.IsEmpty
IsEmpty(s) ==
    IF s.IsArray THEN Len(s.Multiple) = 0 ELSE s.Single = ""

\* The zero value of the Schema struct.
Schema ==
    [Type |-> StringOrArray("", <<>>, FALSE),
     Enum |-> <<>>, Const |-> Nil,
     MinLength |-> Nil, MaxLength |-> Nil, Pattern |-> "", Format |-> "",
     Minimum |-> Nil, Maximum |-> Nil,
     ExclusiveMinimum |-> Nil, ExclusiveMaximum |-> Nil, MultipleOf |-> Nil,
     Properties |-> Nil, Required |-> <<>>, AdditionalProperties |-> Nil,
     Items |-> Nil, MinItems |-> Nil, MaxItems |-> Nil,
     OneOf |-> <<>>, AnyOf |-> <<>>, AllOf |-> <<>>]

\* ---------------------------------------------------------------- parsing
\* A schema document is the JSON text already read into a JSON value; the
\* text that is not JSON at all is Malformed.
Malformed == [t |-> "malformed"]

\* The value of key k of a JSON object, Nil when the key is absent.  A key
\* whose value is null decodes like an absent key (encoding/json leaves the
\* pointer, slice, map or interface nil).
Field(d, k) == IF k \in DOMAIN d.v THEN d.v[k] ELSE Nil

AllSeq(s, P(_)) == \A i \in 1..Len(s) : P(s[i])

IsStr(x) == x.t = "str"

\* StringOrArray.UnmarshalJSON: a string, else an array of strings.
UnmarshalType(x) ==
    CASE x.t = "nil" -> [ok |-> TRUE, v |-> StringOrArray("", <<>>, FALSE)]
      [] x.t = "str" -> [ok |-> TRUE, v |-> StringOrArray(x.v, <<>>, FALSE)]
      [] x.t = "arr" /\ AllSeq(x.v, IsStr) ->
            [ok |-> TRUE, v |-> StringOrArray("", [i \in 1..Len(x.v) |-> x.v[i].v], TRUE)]
      [] OTHER -> [ok |-> FALSE, v |-> StringOrArray("", <<>>, FALSE)]

\* *int: a JSON number without fractional part.
UnmarshalInt(x) ==
    CASE x.t = "nil" -> [ok |-> TRUE, v |-> Nil]
      [] x.t = "num" /\ x.v % Scale = 0 -> [ok |-> TRUE, v |-> Itg(x.v \div Scale)]
      [] OTHER -> [ok |-> FALSE, v |-> Nil]

\* *float64
UnmarshalFloat(x) ==
    CASE x.t = "nil" -> [ok |-> TRUE, v |-> Nil]
      [] x.t = "num" -> [ok |-> TRUE, v |-> x]
      [] OTHER -> [ok |-> FALSE, v |-> Nil]

\* string
UnmarshalString(x) ==
    CASE x.t = "nil" -> [ok |-> TRUE, v |-> ""]
      [] x.t = "str" -> [ok |-> TRUE, v |-> x.v]
      [] OTHER -> [ok |-> FALSE, v |-> ""]

\* []string
UnmarshalStrings(x) ==
    CASE x.t = "nil" -> [ok |-> TRUE, v |-> <<>>]
      [] x.t = "arr" /\ AllSeq(x.v, IsStr) ->
            [ok |-> TRUE, v |-> [i \in 1..Len(x.v) |-> x.v[i].v]]
      [] OTHER -> [ok |-> FALSE, v |-> <<>>]

\* []interface{}
UnmarshalValues(x) ==
    CASE x.t = "nil" -> [ok |-> TRUE, v |-> <<>>]
      [] x.t = "arr" -> [ok |-> TRUE, v |-> x.v]
      [] OTHER -> [ok |-> FALSE, v |-> <<>>]

RECURSIVE ParseSchema(_)
\* []Schema
UnmarshalSchemas(x) ==
    CASE x.t = "nil" -> [ok |-> TRUE, v |-> <<>>]
      [] x.t = "arr" ->
            Let([i \in 1..Len(x.v) |-> ParseSchema(x.v[i])], LAMBDA ps :
                [ok |-> \A i \in 1..Len(ps) : ps[i].ok,
                 v |-> [i \in 1..Len(ps) |-> ps[i].s]])
      [] OTHER -> [ok |-> FALSE, v |-> <<>>]

\* map[string]*Schema
UnmarshalProperties(x) ==
    CASE x.t = "nil" -> [ok |-> TRUE, v |-> Nil]
      [] x.t = "obj" ->
            Let([k \in DOMAIN x.v |-> ParseSchema(x.v[k])], LAMBDA ps :
                [ok |-> \A k \in DOMAIN ps : ps[k].ok,
                 v |-> [t |-> "map", v |-> [k \in DOMAIN ps |-> ps[k].s]]])
      [] OTHER -> [ok |-> FALSE, v |-> Nil]

\* ParseSchema: json.Unmarshal of the document into a Schema.
ParseSchema(d) ==
    CASE d.t = "nil" -> [ok |-> TRUE, s |-> Schema]
      [] d.t = "obj" ->
            LET type == UnmarshalType(Field(d, "type"))
                enum == UnmarshalValues(Field(d, "enum"))
                minLength == UnmarshalInt(Field(d, "minLength"))
                maxLength == UnmarshalInt(Field(d, "maxLength"))
                pattern == UnmarshalString(Field(d, "pattern"))
                format == UnmarshalString(Field(d, "format"))
                minimum == UnmarshalFloat(Field(d, "minimum"))
                maximum == UnmarshalFloat(Field(d, "maximum"))
                exclusiveMinimum == UnmarshalFloat(Field(d, "exclusiveMinimum"))
                exclusiveMaximum == UnmarshalFloat(Field(d, "exclusiveMaximum"))
                multipleOf == UnmarshalFloat(Field(d, "multipleOf"))
                required == UnmarshalStrings(Field(d, "required"))
                minItems == UnmarshalInt(Field(d, "minItems"))
                maxItems == UnmarshalInt(Field(d, "maxItems"))
            IN  Let(UnmarshalProperties(Field(d, "properties")), LAMBDA properties :
                Let(UnmarshalSchemas(Field(d, "oneOf")), LAMBDA oneOf :
                Let(UnmarshalSchemas(Field(d, "anyOf")), LAMBDA anyOf :
                Let(UnmarshalSchemas(Field(d, "allOf")), LAMBDA allOf :
                [ok |-> type.ok /\ enum.ok /\ minLength.ok /\ maxLength.ok
                        /\ pattern.ok /\ format.ok /\ minimum.ok /\ maximum.ok
                        /\ exclusiveMinimum.ok /\ exclusiveMaximum.ok
                        /\ multipleOf.ok /\ properties.ok /\ required.ok
                        /\ minItems.ok /\ maxItems.ok
                        /\ oneOf.ok /\ anyOf.ok /\ allOf.ok,
                 s |-> [Type |-> type.v,
                        Enum |-> enum.v, Const |-> Field(d, "const"),
                        MinLength |-> minLength.v, MaxLength |-> maxLength.v,
                        Pattern |-> pattern.v, Format |-> format.v,
                        Minimum |-> minimum.v, Maximum |-> maximum.v,
                        ExclusiveMinimum |-> exclusiveMinimum.v,
                        ExclusiveMaximum |-> exclusiveMaximum.v,
                        MultipleOf |-> multipleOf.v,
                        Properties |-> properties.v, Required |-> required.v,
                        AdditionalProperties |-> Field(d, "additionalProperties"),
                        Items |-> Field(d, "items"),
                        MinItems |-> minItems.v, MaxItems |-> maxItems.v,
                        OneOf |-> oneOf.v, AnyOf |-> anyOf.v, AllOf |-> allOf.v]]))))
      [] OTHER -> [ok |-> FALSE, s |-> Schema]

\* ---------------------------------------------------------------- validation
\* Property names of the schema documents, and the orders in which a Go
\* `range` over a map of them may run: Go leaves the order unspecified and
\* randomises it, so every order is a possible outcome of every range.
PropNames == {"cat", "id"}
Orders == {<<"cat", "id">>, <<"id", "cat">>}

\* The keys of map m in the order ord.
Range(m, ord) == SelectSeq(ord, LAMBDA k : k \in DOMAIN m)

ValidationError(path, message) == [t |-> "error", Path |-> path, Message |-> message]

RECURSIVE Flatten(_)
\* The concatenation of a sequence of sequences (repeated append(errors, xs...)).
Flatten(ss) == IF Len(ss) = 0 THEN <<>> ELSE Head(ss) \o Flatten(Tail(ss))

\* The four bound-pair checks of one node (messages without the numbers).
NodeErrors(s, basePath) ==
    (IF ~IsNil(s.Minimum) /\ ~IsNil(s.Maximum) /\ s.Minimum.v > s.Maximum.v
     THEN <<ValidationError(basePath, "minimum cannot be greater than maximum")>>
     ELSE <<>>)
    \o
    (IF ~IsNil(s.ExclusiveMinimum) /\ ~IsNil(s.ExclusiveMaximum)
        /\ s.ExclusiveMinimum.v >= s.ExclusiveMaximum.v
     THEN <<ValidationError(basePath, "exclusiveMinimum must be less than exclusiveMaximum")>>
     ELSE <<>>)
    \o
    (IF ~IsNil(s.MinLength) /\ ~IsNil(s.MaxLength) /\ s.MinLength.v > s.MaxLength.v
     THEN <<ValidationError(basePath, "minLength cannot be greater than maxLength")>>
     ELSE <<>>)
    \o
    (IF ~IsNil(s.MinItems) /\ ~IsNil(s.MaxItems) /\ s.MinItems.v > s.MaxItems.v
     THEN <<ValidationError(basePath, "minItems cannot be greater than maxItems")>>
     ELSE <<>>)

\* fmt.Sprintf("%s.<keyword>[%d]", basePath, i) with the 0-based index i.
IndexPath(basePath, keyword, i) ==
    basePath \o "." \o keyword \o "[" \o ToString(i) \o "]"

PropPath(basePath, propName) ==
    IF basePath = "" THEN propName ELSE basePath \o "." \o propName

RECURSIVE ValidateWithDetails(_, _, _)
\* Schema.ValidateWithDetails; ord is the order of the range over Properties.
ValidateWithDetails(s, basePath, ord) ==
    LET props == IF IsNil(s.Properties) THEN <<>>
                 ELSE LET names == Range(s.Properties.v, ord)
                      IN  [i \in 1..Len(names) |->
                             ValidateWithDetails(s.Properties.v[names[i]],
                                                 PropPath(basePath, names[i]), ord)]
        branch(bs, keyword) ==
            [i \in 1..Len(bs) |->
                ValidateWithDetails(bs[i], IndexPath(basePath, keyword, i - 1), ord)]
    IN  NodeErrors(s, basePath)
        \o Flatten(props)
        \o Flatten(branch(s.OneOf, "oneOf"))
        \o Flatten(branch(s.AnyOf, "anyOf"))
        \o Flatten(branch(s.AllOf, "allOf"))

\* The checks of the root alone, the nested schemas left out.
ValidateRoot(s, ord) ==
    Let(NodeErrors(s, ""), LAMBDA errors :
        IF Len(errors) > 0 THEN errors[1] ELSE Nil)

\* Schema.Validate (the one ValidateWithDetails is built on): the first
\* error, Nil when there is none.
Validate(s, ord) ==
    Let(ValidateWithDetails(s, "", ord), LAMBDA errors :
        IF Len(errors) > 0 THEN errors[1] ELSE Nil)

\* ---------------------------------------------------------------- streams
Seeds == 0..MaxSeed

\* rand.New(rand.NewSource(seed)): the stream's state after seeding.
NewSource(seed) == seed % RandMod
\* One step of the stream (a linear congruential generator).
RandNext(r) == (5 * r + 3) % RandMod
\* gofakeit.New(uint64(seed))
NewFaker(seed) == (seed + 1) % FakerMod
FakerNext(f) == (5 * f + 3) % FakerMod

Words == <<"at", "cat", "lorem">>
Letters == <<"a", "b", "c">>

\* A generation in progress: the Generator g (its streams advance in
\* place), what the run time chooses outside the seeded streams (env), and
\* bookkeeping: draws from g.rand, recursive calls entered, the largest
\* depth at which a call returned a value (-1: none), and the recursive
\* calls that returned an error.
Run(g, env, ctx) ==
    [g |-> g, env |-> env, ctx |-> ctx, draws |-> 0, calls |-> 0, okd |-> -1, fails |-> 0]

\* g.rand.Intn(n), n > 0
Intn(c, n) ==
    LET r == RandNext(c.g.rand)
    IN  [v |-> r % n, c |-> [c EXCEPT !.g.rand = r, !.draws = @ + 1]]

\* g.rand.Float64() * span: a fraction in [0, 1) of span
Float64Times(c, span) ==
    LET r == RandNext(c.g.rand)
    IN  [v |-> (r * span) \div RandMod, c |-> [c EXCEPT !.g.rand = r, !.draws = @ + 1]]

\* g.faker.Word()
Word(c) ==
    LET f == FakerNext(c.g.faker)
    IN  [v |-> Words[(f % Len(Words)) + 1], c |-> [c EXCEPT !.g.faker = f]]

RECURSIVE LetterN(_, _)
\* g.faker.LetterN(n)
LetterN(c, n) ==
    IF n = 0 THEN [v |-> "", c |-> c]
    ELSE LET f == FakerNext(c.g.faker)
         IN  Let(LetterN([c EXCEPT !.g.faker = f], n - 1), LAMBDA rest :
                 [v |-> Letters[(f % Len(Letters)) + 1] \o rest.v, c |-> rest.c])

\* What gofakeit produces for a format: one of a few strings of that shape.
FormatSamples(format) ==
    CASE format = "uuid" -> <<"6ba7b810-9dad-41d1-80b4-00c04fd430c8",
                              "00000000-0000-4000-8000-000000000000">>
      [] format = "email" -> <<"a@b.io", "lorem@cat.com">>
      [] format = "date-time" -> <<"2006-01-02T15:04:05Z", "1999-12-31T23:59:59Z">>
      [] format = "date" -> <<"2006-01-02", "1999-12-31">>
      [] format = "time" -> <<"15:04:05", "23:59:59">>
      [] format = "ipv4" -> <<"10.0.0.1", "192.168.100.200">>
      [] format = "ipv6" -> <<"2001:db8:0:0:0:0:0:1", "fe80:0:0:0:0:0:0:a">>
      [] format \in {"uri", "url"} -> <<"http://at.io/", "https://www.lorem.com/cat">>
      [] format = "hostname" -> <<"at.io", "lorem.com">>
      [] OTHER -> Words

\* Generator.generateStringFromFormat
generateStringFromFormat(c, format) ==
    LET f == FakerNext(c.g.faker)
        samples == FormatSamples(format)
    IN  [val |-> Str(samples[(f % Len(samples)) + 1]), err |-> "",
         c |-> [c EXCEPT !.g.faker = f]]

\* The patterns of the schema documents: strings of their language, none
\* for an expression that does not compile.
PatternSamples(pattern) ==
    CASE pattern = "^[0-9]{5}$" -> <<"00000", "12345">>
      [] pattern = "^a+$" -> <<"a", "aaaaaaaaaa">>
      [] OTHER -> <<>>
PatternCompiles(pattern) == pattern \in {"^[0-9]{5}$", "^a+$"}

\* Generator.generateStringFromPattern.  reggen.NewGenerator seeds a stream
\* of its own from the clock, so the string is the run time's choice
\* (env.pat), not a function of the Generator's seed.
generateStringFromPattern(c, pattern) ==
    IF ~PatternCompiles(pattern)
    THEN [val |-> Nil, err |-> "invalid regex pattern", c |-> c]
    ELSE LET samples == PatternSamples(pattern)
         IN  [val |-> Str(samples[(c.env.pat % Len(samples)) + 1]), err |-> "",
              c |-> [c EXCEPT !.env.pat = @ + 1]]

RECURSIVE AddWords(_, _, _)
\* The loop of randomString: add words while len(result) < length.
AddWords(c, result, length) ==
    IF Len(result) < length
    THEN Let(Word(c), LAMBDA w : AddWords(w.c, result \o w.v, length))
    ELSE [v |-> result, c |-> c]

\* Generator.randomString
randomString(c, length) ==
    IF length <= 0 THEN [v |-> "", c |-> c]
    ELSE IF length <= 3 THEN LetterN(c, length)
    ELSE Let(Word(c), LAMBDA first :
         Let(AddWords(first.c, first.v, length), LAMBDA all :
             IF Len(all.v) > length
             THEN [v |-> SubSeq(all.v, 1, length), c |-> all.c]
             ELSE all))

\* Generator.generateString
generateString(c, schema) ==
    IF schema.Pattern # "" THEN generateStringFromPattern(c, schema.Pattern)
    ELSE IF schema.Format # "" THEN generateStringFromFormat(c, schema.Format)
    ELSE LET minLen == IF ~IsNil(schema.MinLength) THEN schema.MinLength.v ELSE 0
             maxLen0 == IF ~IsNil(schema.MaxLength) THEN schema.MaxLength.v ELSE 20
             maxLen == IF minLen > maxLen0 THEN minLen ELSE maxLen0
         IN  Let(IF maxLen > minLen THEN Intn(c, maxLen - minLen + 1)
                 ELSE [v |-> 0, c |-> c], LAMBDA d :
             Let(randomString(d.c, minLen + d.v), LAMBDA rs :
                 [val |-> Str(rs.v), err |-> "", c |-> rs.c]))

\* ---------------------------------------------------------------- numbers
\* A generated number in fixed-point units, whichever of int64 or float64.
Scaled(val) == IF val.t = "int" THEN val.v * Scale ELSE val.v

\* The effective minimum and maximum of generateNumber.
NumberMin(schema, isInteger) ==
    IF ~IsNil(schema.Minimum) THEN schema.Minimum.v
    ELSE IF ~IsNil(schema.ExclusiveMinimum)
         THEN IF isInteger THEN Ceil(schema.ExclusiveMinimum.v)
              ELSE schema.ExclusiveMinimum.v
    ELSE 0

\* exclusiveMaximum taken as it stands, for integers too.
NumberMaxPlain(schema, isInteger) ==
    IF ~IsNil(schema.Maximum) THEN schema.Maximum.v
    ELSE IF ~IsNil(schema.ExclusiveMaximum) THEN schema.ExclusiveMaximum.v
    ELSE 1000 * Scale

NumberMax(schema, isInteger) ==
    IF ~IsNil(schema.Maximum) THEN schema.Maximum.v
    ELSE IF ~IsNil(schema.ExclusiveMaximum)
         THEN IF isInteger THEN Floor(schema.ExclusiveMaximum.v) - Scale
              ELSE schema.ExclusiveMaximum.v
    ELSE 1000 * Scale

\* The nearest multiple, left where it falls.
RoundToMultiple(schema, result, min, max) ==
    IF ~IsNil(schema.MultipleOf) /\ schema.MultipleOf.v > 0
    THEN RoundDiv(result, schema.MultipleOf.v) * schema.MultipleOf.v
    ELSE result

\* The multipleOf step of generateNumber on the drawn value.
ApplyMultipleOf(schema, result, min, max) ==
    IF ~IsNil(schema.MultipleOf) /\ schema.MultipleOf.v > 0
    THEN LET multiple == schema.MultipleOf.v
             rounded == RoundDiv(result, multiple) * multiple
             raised == IF rounded < min THEN rounded + multiple ELSE rounded
         IN  IF raised > max THEN raised - multiple ELSE raised
    ELSE result

\* A number drawn for a range without a whole number too.
IntegerDrawAlways(c, intMin, intMax) ==
    Intn(c, IF intMin > intMax THEN 1 ELSE intMax - intMin + 1)

\* The offset from intMin: nothing drawn when intMin > intMax, else
\* g.rand.Int63n(intMax-intMin+1)
IntegerDraw(c, intMin, intMax) ==
    IF intMin > intMax THEN [v |-> 0, c |-> c] ELSE Intn(c, intMax - intMin + 1)

\* Generator.generateNumber
generateNumber(c, schema, isInteger) ==
    LET min == NumberMin(schema, isInteger)
        max == NumberMax(schema, isInteger)
    IN  IF min > max
        THEN [val |-> Nil, err |-> "minimum is greater than maximum", c |-> c]
        ELSE IF isInteger
        THEN LET intMin == Ceil(min) \div Scale
                 intMax == Floor(max) \div Scale
             IN  Let(IntegerDraw(c, intMin, intMax), LAMBDA d :
                     [val |-> Itg(Trunc(ApplyMultipleOf(schema, (intMin + d.v) * Scale,
                                                        min, max))),
                      err |-> "", c |-> d.c])
        ELSE Let(Float64Times(c, max - min), LAMBDA d :
                 [val |-> Num(ApplyMultipleOf(schema, min + d.v, min, max)),
                  err |-> "", c |-> d.c])

\* Generator.generateBoolean
generateBoolean(c) ==
    Let(Intn(c, 2), LAMBDA d : [val |-> Bool(d.v = 1), err |-> "", c |-> d.c])

\* ---------------------------------------------------------------- recursion
\* context.Background() is never done; a cancellable context is done from
\* the moment the run has entered `at` recursive calls.
Background == [t |-> "background"]
WithCancel(at) == [t |-> "cancel", at |-> at]
Done(ctx, calls) == ctx.t = "cancel" /\ calls >= ctx.at

\* A slice length below zero makes the run time panic (make([]T, n)).
Panic == "panic: makeslice: len out of range"

\* fmt.Errorf("<message>: %w", err)
Wrap(message, err) == message \o ": " \o err

Contains(seq, x) == \E i \in 1..Len(seq) : seq[i] = x

\* m with key k set to v
Put(m, k, v) == [x \in DOMAIN m \cup {k} |-> IF x = k THEN v ELSE m[x]]

RECURSIVE generateWithContext(_, _, _, _)
RECURSIVE generateByType(_, _, _)
RECURSIVE generateFields(_, _, _, _, _)
RECURSIVE extraWords(_, _, _)
RECURSIVE extraValues(_, _, _, _, _)
RECURSIVE fillWords(_, _, _)
RECURSIVE generateItems(_, _, _, _, _)
RECURSIVE generateTuple(_, _, _, _, _, _)

\* Generator.generate
generate(c, schema, depth) == generateWithContext(c, Background, schema, depth)

\* Only the fields that are required.
RequiredOnly(c, schema, fieldName) == Contains(schema.Required, fieldName)

\* requiredMap[fieldName] || g.GenerateAllFields
Included(c, schema, fieldName) ==
    Contains(schema.Required, fieldName) \/ c.g.GenerateAllFields

\* The loop of generateObject over schema.Properties, from names on.
generateFields(c, schema, names, result, depth) ==
    IF Len(names) = 0 THEN [val |-> Obj(result), err |-> "", c |-> c]
    ELSE LET fieldName == Head(names) IN
         IF Included(c, schema, fieldName)
         THEN Let(generate(c, schema.Properties.v[fieldName], depth + 1), LAMBDA r :
                  IF r.err # ""
                  THEN [val |-> Nil, err |-> IF r.err = Panic THEN Panic
                                             ELSE Wrap("failed to generate field", r.err),
                        c |-> r.c]
                  ELSE Let(Put(result, fieldName, r.val), LAMBDA added :
                           generateFields(r.c, schema, Tail(names), added, depth)))
         ELSE generateFields(c, schema, Tail(names), result, depth)

\* additionalProperties true: numExtra times result[Word()] = Word()
extraWords(c, numExtra, result) ==
    IF numExtra = 0 THEN [val |-> Obj(result), err |-> "", c |-> c]
    ELSE Let(Word(c), LAMBDA key :
         Let(Word(key.c), LAMBDA value :
         Let(Put(result, key.v, Str(value.v)), LAMBDA added :
             extraWords(value.c, numExtra - 1, added))))

\* additionalProperties a schema: the value is kept only when its
\* generation returned no error.
extraValues(c, apSchema, numExtra, result, depth) ==
    IF numExtra = 0 THEN [val |-> Obj(result), err |-> "", c |-> c]
    ELSE Let(Word(c), LAMBDA key :
         Let(generate(key.c, apSchema, depth + 1), LAMBDA r :
             IF r.err = Panic THEN [val |-> Nil, err |-> Panic, c |-> r.c]
             ELSE Let(IF r.err = "" THEN Put(result, key.v, r.val) ELSE result,
                      LAMBDA added :
                          extraValues(r.c, apSchema, numExtra - 1, added, depth))))

\* Extra entries whatever generateAllFields is.
SynthesizesAlways(c, schema) == ~IsNil(schema.AdditionalProperties)

\* schema.AdditionalProperties != nil && g.GenerateAllFields
Synthesizes(c, schema) ==
    ~IsNil(schema.AdditionalProperties) /\ c.g.GenerateAllFields

\* Generator.generateObject
generateObject(c, schema, depth) ==
    IF IsNil(schema.Properties) THEN [val |-> Obj(<<>>), err |-> "", c |-> c]
    ELSE Let(generateFields(c, schema, Range(schema.Properties.v, c.env.ord), <<>>, depth),
             LAMBDA fields :
             LET ap == schema.AdditionalProperties
             IN  IF fields.err # "" THEN fields
                 ELSE IF Synthesizes(c, schema)
                 THEN CASE ap.t = "bool" ->
                             IF ap.v
                             THEN Let(Intn(fields.c, 3), LAMBDA d :
                                      extraWords(d.c, d.v, fields.val.v))
                             ELSE fields
                        [] ap.t = "obj" ->
                             Let(ParseSchema(ap), LAMBDA apSchema :
                                 IF apSchema.ok
                                 THEN Let(Intn(fields.c, 3), LAMBDA d :
                                          extraValues(d.c, apSchema.s, d.v,
                                                      fields.val.v, depth))
                                 ELSE fields)
                        [] OTHER -> fields
                 ELSE fields)

\* for i := from; i < length; i++ { result[i] = g.faker.Word() }
fillWords(c, result, n) ==
    IF n <= 0 THEN [val |-> Arr(result), err |-> "", c |-> c]
    ELSE Let(Word(c), LAMBDA w :
         Let(Append(result, Str(w.v)), LAMBDA added : fillWords(w.c, added, n - 1)))

\* items a single schema: n more elements from itemSchema
generateItems(c, itemSchema, result, n, depth) ==
    IF n <= 0 THEN [val |-> Arr(result), err |-> "", c |-> c]
    ELSE Let(generate(c, itemSchema, depth + 1), LAMBDA r :
             IF r.err # ""
             THEN [val |-> Nil, err |-> IF r.err = Panic THEN Panic
                                        ELSE Wrap("failed to generate array item", r.err),
                   c |-> r.c]
             ELSE Let(Append(result, r.val), LAMBDA added :
                      generateItems(r.c, itemSchema, added, n - 1, depth)))

\* Every remaining slot a word, the positional schemas left unread.
generateWords(c, items, result, i, length, depth) == fillWords(c, result, length - i)

\* items a sequence of schemas: elements i (0-based) up to length
generateTuple(c, items, result, i, length, depth) ==
    IF i >= length THEN [val |-> Arr(result), err |-> "", c |-> c]
    ELSE IF i < Len(items)
    THEN Let(ParseSchema(items[i + 1]), LAMBDA itemSchema :
             IF ~itemSchema.ok
             THEN [val |-> Nil, err |-> "failed to parse items schema at index", c |-> c]
             ELSE Let(generate(c, itemSchema.s, depth + 1), LAMBDA r :
                      IF r.err # ""
                      THEN [val |-> Nil, err |-> IF r.err = Panic THEN Panic
                                                 ELSE Wrap("failed to generate array item", r.err),
                            c |-> r.c]
                      ELSE Let(Append(result, r.val), LAMBDA added :
                               generateTuple(r.c, items, added, i + 1, length, depth))))
    ELSE Let(Word(c), LAMBDA w :
         Let(Append(result, Str(w.v)), LAMBDA added :
             generateTuple(w.c, items, added, i + 1, length, depth)))

\* The largest element count with maxItems left unread.
ArrayMaxDefault(schema) ==
    IF ~IsNil(schema.MinItems) /\ schema.MinItems.v > 5 THEN schema.MinItems.v ELSE 5

\* The element count of generateArray, before the draw: [lo, hi].
ArrayMin(schema) == IF ~IsNil(schema.MinItems) THEN schema.MinItems.v ELSE 0
ArrayMax(schema) ==
    LET maxItems == IF ~IsNil(schema.MaxItems) THEN schema.MaxItems.v ELSE 5
    IN  IF ArrayMin(schema) > maxItems THEN ArrayMin(schema) ELSE maxItems

\* Generator.generateArray
generateArray(c, schema, depth) ==
    LET minItems == ArrayMin(schema)
        maxItems == ArrayMax(schema)
        items == schema.Items
    IN  Let(IF maxItems > minItems THEN Intn(c, maxItems - minItems + 1)
            ELSE [v |-> 0, c |-> c], LAMBDA d :
        LET length == minItems + d.v
        IN  IF length < 0 THEN [val |-> Nil, err |-> Panic, c |-> d.c]
            ELSE IF IsNil(items) THEN fillWords(d.c, <<>>, length)
            ELSE CASE items.t = "obj" ->
                        Let(ParseSchema(items), LAMBDA itemSchema :
                            IF ~itemSchema.ok
                            THEN [val |-> Nil, err |-> "failed to parse items schema",
                                  c |-> d.c]
                            ELSE generateItems(d.c, itemSchema.s, <<>>, length, depth))
                   [] items.t = "arr" -> generateTuple(d.c, items.v, <<>>, 0, length, depth)
                   [] OTHER -> [val |-> Nil, err |-> "unsupported items type", c |-> d.c])

\* Generator.handleOneOf
handleOneOf(c, schema, depth) ==
    IF Len(schema.OneOf) = 0 THEN [val |-> Nil, err |-> "oneOf array is empty", c |-> c]
    ELSE Let(Intn(c, Len(schema.OneOf)), LAMBDA d :
             generate(d.c, schema.OneOf[d.v + 1], depth))

\* Generator.handleAnyOf
handleAnyOf(c, schema, depth) ==
    IF Len(schema.AnyOf) = 0 THEN [val |-> Nil, err |-> "anyOf array is empty", c |-> c]
    ELSE Let(Intn(c, Len(schema.AnyOf)), LAMBDA d :
             generate(d.c, schema.AnyOf[d.v + 1], depth))

\* The last branch taken in place of the first.
handleAllOfLast(c, schema, depth) ==
    IF Len(schema.AllOf) = 0 THEN [val |-> Nil, err |-> "allOf array is empty", c |-> c]
    ELSE generate(c, schema.AllOf[Len(schema.AllOf)], depth)

\* Generator.handleAllOf
handleAllOf(c, schema, depth) ==
    IF Len(schema.AllOf) = 0 THEN [val |-> Nil, err |-> "allOf array is empty", c |-> c]
    ELSE generate(c, schema.AllOf[1], depth)

\* Generator.generateByType
generateByType(c, schema, depth) ==
    LET types == GetTypes(schema.Type)
    IN  IF Len(types) > 1
        THEN Let(Intn(c, Len(types)), LAMBDA d :
             Let([schema EXCEPT !.Type = StringOrArray(types[d.v + 1], <<>>, FALSE)],
                 LAMBDA modifiedSchema : generateByType(d.c, modifiedSchema, depth)))
        ELSE IF Len(types) = 0
        THEN [val |-> Nil, err |-> "no type specified", c |-> c]
        ELSE LET typeName == types[1]
             IN  CASE typeName = "string" -> generateString(c, schema)
                   [] typeName = "number" -> generateNumber(c, schema, FALSE)
                   [] typeName = "integer" -> generateNumber(c, schema, TRUE)
                   [] typeName = "boolean" -> generateBoolean(c)
                   [] typeName = "object" -> generateObject(c, schema, depth)
                   [] typeName = "array" -> generateArray(c, schema, depth)
                   [] typeName = "null" -> [val |-> Nil, err |-> "", c |-> c]
                   [] OTHER -> [val |-> Nil, err |-> "unsupported type", c |-> c]

\* The first element, with nothing drawn.
FirstOfEnum(c, schema) == [val |-> schema.Enum[1], err |-> "", c |-> c]

\* schema.Enum[g.rand.Intn(len(schema.Enum))]
PickEnum(c, schema) ==
    Let(Intn(c, Len(schema.Enum)), LAMBDA d :
        [val |-> schema.Enum[d.v + 1], err |-> "", c |-> d.c])

\* The limit taken as the deepest level allowed.
DepthBeyond(c, depth) == depth > c.g.MaxDepth

\* depth >= g.MaxDepth
DepthExceeded(c, depth) == depth >= c.g.MaxDepth

\* The body of generateWithContext after the call has been counted.
Dispatch(c, ctx, schema, depth) ==
    IF Done(ctx, c.calls - 1)
    THEN [val |-> Nil, err |-> "generation cancelled", c |-> c]
    ELSE IF DepthExceeded(c, depth)
    THEN [val |-> Nil, err |-> "maximum recursion depth exceeded", c |-> c]
    ELSE IF ~IsNil(schema.Const)
    THEN [val |-> schema.Const, err |-> "", c |-> c]
    ELSE IF Len(schema.Enum) > 0 THEN PickEnum(c, schema)
    ELSE IF Len(schema.OneOf) > 0 THEN handleOneOf(c, schema, depth)
    ELSE IF Len(schema.AnyOf) > 0 THEN handleAnyOf(c, schema, depth)
    ELSE IF Len(schema.AllOf) > 0 THEN handleAllOf(c, schema, depth)
    ELSE IF ~IsEmpty(schema.Type) THEN generateByType(c, schema, depth)
    ELSE IF ~IsNil(schema.Properties) THEN generateObject(c, schema, depth)
    ELSE IF ~IsNil(schema.Items) THEN generateArray(c, schema, depth)
    ELSE [val |-> Obj(<<>>), err |-> "", c |-> c]

\* Generator.generateWithContext, with the bookkeeping of Run.
generateWithContext(c, ctx, schema, depth) ==
    Let([c EXCEPT !.calls = @ + 1], LAMBDA entered :
    Let(Dispatch(entered, ctx, schema, depth), LAMBDA r :
        IF r.err = "" THEN [r EXCEPT !.c.okd = Max2(@, depth)]
        ELSE [r EXCEPT !.c.fails = @ + 1]))

\* ---------------------------------------------------------------- encoding
\* Every key a generated object can have, in the byte order in which
\* json.Marshal writes the keys of a map.
SortedKeys == <<"at", "cat", "id", "lorem">>

\* strconv's text of a number: no fraction digits for a whole number.
FormatNumber(n) ==
    LET a == IF n < 0 THEN -n ELSE n
        whole == ToString(a \div Scale)
        frac == a % Scale
    IN  (IF n < 0 THEN "-" ELSE "")
        \o (IF frac = 0 THEN whole ELSE whole \o "." \o ToString((frac * 10) \div Scale))

RECURSIVE Marshal(_)
RECURSIVE MarshalElems(_)
RECURSIVE MarshalMembers(_, _)
MarshalElems(s) ==
    IF Len(s) = 0 THEN ""
    ELSE Marshal(Head(s)) \o (IF Len(s) > 1 THEN "," ELSE "") \o MarshalElems(Tail(s))
MarshalMembers(m, keys) ==
    IF Len(keys) = 0 THEN ""
    ELSE "'" \o Head(keys) \o "':" \o Marshal(m[Head(keys)])
         \o (IF Len(keys) > 1 THEN "," ELSE "") \o MarshalMembers(m, Tail(keys))
\* json.Marshal of a generated value (the quote character written as ').
Marshal(val) ==
    CASE val.t = "nil" -> "null"
      [] val.t = "bool" -> IF val.v THEN "true" ELSE "false"
      [] val.t = "num" -> FormatNumber(val.v)
      [] val.t = "int" -> ToString(val.v)
      [] val.t = "str" -> "'" \o val.v \o "'"
      [] val.t = "arr" -> "[" \o MarshalElems(val.v) \o "]"
      [] val.t = "obj" -> "{" \o MarshalMembers(val.v, Range(val.v, SortedKeys)) \o "}"

\* ---------------------------------------------------------------- state
VARIABLES
    gens,   \* the Generator instances: MaxDepth, Seed, rand, faker, GenerateAllFields
    outs,   \* per instance, what its last operation was given and returned
    vout    \* what the last call of Schema.ValidateWithDetails returned

vars == <<gens, outs, vout>>

MaxDepthBound == 3                  \* SetMaxDepth is called with 0..MaxDepthBound
Depths == 0..MaxDepthBound
MaxCancel == 1                      \* a context is cancelled after 0..MaxCancel calls
Contexts == {Background} \cup {WithCancel(at) : at \in 0..MaxCancel}
\* What the run time chooses in one call: the order of the ranges over
\* maps, and the pattern generator's stream.
Envs == [ord : Orders, pat : 0..(MaxPat - 1)]
OrderEnvs == [ord : Orders, pat : {0}]

\* NewGenerator; seed is time.Now().UnixNano()
NewGenerator(seed) ==
    [MaxDepth |-> 10, Seed |-> seed, rand |-> NewSource(seed),
     faker |-> NewFaker(seed), GenerateAllFields |-> FALSE]

\* The constructor and the setters return the instance itself.
NoCall == [op |-> "configure"]

\* The streams of g are where seeding put them: nothing was drawn since.
Fresh(g) == g.rand = NewSource(g.Seed) /\ g.faker = NewFaker(g.Seed)

\* Instance i was configured and has not generated since, and its streams
\* are where seeding put them.
Ready(i) == outs[i] = NoCall /\ Fresh(gens[i])

\* gen = NewGenerator()
Construct(i, seed) ==
    /\ gens' = [gens EXCEPT ![i] = NewGenerator(seed)]
    /\ outs' = [outs EXCEPT ![i] = NoCall]
    /\ UNCHANGED vout

\* Generator.SetSeed
SetSeed(i, seed) ==
    /\ gens' = [gens EXCEPT ![i] = [@ EXCEPT !.Seed = seed, !.rand = NewSource(seed),
                                              !.faker = NewFaker(seed)]]
    /\ outs' = [outs EXCEPT ![i] = NoCall]
    /\ UNCHANGED vout

\* Generator.SetMaxDepth
SetMaxDepth(i, depth) ==
    /\ gens' = [gens EXCEPT ![i].MaxDepth = depth]
    /\ outs' = [outs EXCEPT ![i] = NoCall]
    /\ UNCHANGED vout

\* Generator.SetGenerateAllFields
SetGenerateAllFields(i, all) ==
    /\ gens' = [gens EXCEPT ![i].GenerateAllFields = all]
    /\ outs' = [outs EXCEPT ![i] = NoCall]
    /\ UNCHANGED vout

\* The same with a number drawn from g.rand before the document is read.
GenerationDrawsFirst(g, ctx, doc, env) ==
    Let(Run([g EXCEPT !.rand = RandNext(@)], env, ctx), LAMBDA c :
    Let(ParseSchema(doc), LAMBDA parsed :
        IF ~parsed.ok THEN [val |-> Nil, err |-> "failed to parse schema", c |-> c]
        ELSE IF ~IsNil(Validate(parsed.s, env.ord))
        THEN [val |-> Nil, err |-> "invalid schema", c |-> c]
        ELSE generateWithContext(c, ctx, parsed.s, 0)))

\* The common body of Generate and GenerateWithContext: parse, validate,
\* generate at depth 0.
Generation(g, ctx, doc, env) ==
    Let(Run(g, env, ctx), LAMBDA c :
    Let(ParseSchema(doc), LAMBDA parsed :
        IF ~parsed.ok THEN [val |-> Nil, err |-> "failed to parse schema", c |-> c]
        ELSE IF ~IsNil(Validate(parsed.s, env.ord))
        THEN [val |-> Nil, err |-> "invalid schema", c |-> c]
        ELSE generateWithContext(c, ctx, parsed.s, 0)))

\* What a generation call on instance i leaves in outs[i].
Outcome(op, g, ctx, doc, r, bytes) ==
    [op |-> op, pre |-> g, ctx |-> ctx, doc |-> doc,
     val |-> r.val, err |-> r.err, bytes |-> bytes,
     draws |-> r.c.draws, calls |-> r.c.calls, okd |-> r.c.okd, fails |-> r.c.fails]

\* Generator.Generate
Generate(i, doc, env) ==
    \E r \in {Generation(gens[i], Background, doc, env)} :
        /\ gens' = [gens EXCEPT ![i] = r.c.g]
        /\ outs' = [outs EXCEPT ![i] = Outcome("Generate", gens[i], Background, doc, r, "")]
        /\ UNCHANGED vout

\* Generator.GenerateBytes
GenerateBytes(i, doc, env) ==
    \E r \in {Generation(gens[i], Background, doc, env)} :
    LET bytes == IF r.err # "" THEN "" ELSE Marshal(r.val)
    IN  /\ gens' = [gens EXCEPT ![i] = r.c.g]
        /\ outs' = [outs EXCEPT ![i] =
                        Outcome("GenerateBytes", gens[i], Background, doc,
                                [r EXCEPT !.val = Nil], bytes)]
        /\ UNCHANGED vout

\* Generator.GenerateWithContext
GenerateWithContext(i, ctx, doc, env) ==
    \E r \in {Generation(gens[i], ctx, doc, env)} :
        /\ gens' = [gens EXCEPT ![i] = r.c.g]
        /\ outs' = [outs EXCEPT ![i] =
                        Outcome("GenerateWithContext", gens[i], ctx, doc, r, "")]
        /\ UNCHANGED vout

\* ParseSchema followed by Schema.ValidateWithDetails("")
ValidateDoc(doc, ord) ==
    \E parsed \in {ParseSchema(doc)} :
        /\ parsed.ok
        /\ vout' = [doc |-> doc, errors |-> ValidateWithDetails(parsed.s, "", ord)]
        /\ UNCHANGED <<gens, outs>>

\* ---------------------------------------------------------------- documents
Typed(type) == "type" :> Str(type)

BooleanDoc == Obj(Typed("boolean"))
IntegerDoc(lo, hi) == Obj(Typed("integer") @@ ("minimum" :> N(lo)) @@ ("maximum" :> N(hi)))
StringDoc(lo, hi) == Obj(Typed("string") @@ ("minLength" :> N(lo)) @@ ("maxLength" :> N(hi)))

\* The four kinds of contradictory bound pairs.
BadDocs ==
    {Obj(Typed("integer") @@ ("minimum" :> N(3)) @@ ("maximum" :> N(1))),
     Obj(Typed("number") @@ ("exclusiveMinimum" :> N(2)) @@ ("exclusiveMaximum" :> N(2))),
     Obj(Typed("string") @@ ("minLength" :> N(2)) @@ ("maxLength" :> N(1))),
     Obj(Typed("array") @@ ("minItems" :> N(2)) @@ ("maxItems" :> N(1)))}

Strs(names) == Arr([i \in 1..Len(names) |-> Str(names[i])])

\* {"type": "object", "properties": props, "required": required}
ObjectDoc(props, required) ==
    Obj(Typed("object") @@ ("properties" :> Obj(props)) @@ ("required" :> Strs(required)))

Leaves == {BooleanDoc, IntegerDoc(0, 3)}

\* Objects over every subset of the property names; "zip" is a name that
\* no document declares.
Requireds == {<<>>, <<"cat">>, <<"id">>, <<"cat", "id">>, <<"id", "zip">>}
ObjectDocs ==
    {ObjectDoc(props, required) :
        props \in UNION {[names -> Leaves] : names \in SUBSET PropNames},
        required \in Requireds}
    \cup {Obj(Typed("object") @@ ("required" :> Strs(<<"cat">>)))}

Literals ==
    {Str("at"), N(1), Bool(FALSE), Nil, Arr(<<N(1), Str("x")>>), Obj("cat" :> N(1))}

OtherKeywords ==
    {<<>>,
     Typed("string"),
     "enum" :> Arr(<<N(2), N(3)>>),
     "oneOf" :> Arr(<<BooleanDoc, IntegerDoc(0, 3)>>),
     Typed("integer") @@ ("minimum" :> N(2)) @@ ("maximum" :> N(3))}

ConstDocs == {Obj(("const" :> lit) @@ other) : lit \in Literals, other \in OtherKeywords}

Enums == {<<Str("a"), Str("b"), Str("c")>>, <<N(1), Nil>>, <<Bool(TRUE)>>}
EnumDocs ==
    {Obj(("enum" :> Arr(enum)) @@ other) :
        enum \in Enums, other \in OtherKeywords \ {"enum" :> Arr(<<N(2), N(3)>>)}}
    \cup {ObjectDoc("cat" :> Obj("enum" :> Arr(enum)), <<"cat">>) : enum \in Enums}

RECURSIVE NestedObjects(_)
\* n objects, each the one required property of the one before, around a string
NestedObjects(n) ==
    IF n = 0 THEN StringDoc(1, 1) ELSE ObjectDoc("cat" :> NestedObjects(n - 1), <<"cat">>)

RECURSIVE NestedArrays(_)
\* n arrays of exactly one element around a boolean
NestedArrays(n) ==
    IF n = 0 THEN BooleanDoc
    ELSE Obj(Typed("array") @@ ("items" :> NestedArrays(n - 1))
             @@ ("minItems" :> N(1)) @@ ("maxItems" :> N(1)))

MaxNesting == 4
NestedDocs ==
    {NestedObjects(n) : n \in 1..MaxNesting}
    \cup {NestedArrays(n) : n \in 1..MaxNesting}
    \cup {ObjectDoc("id" :> NestedArrays(n), <<"id">>) : n \in 1..(MaxNesting - 1)}
    \cup {Obj(Typed("object") @@ ("properties" :> Obj("id" :> BooleanDoc))
              @@ ("additionalProperties" :> NestedObjects(n))) : n \in 0..2}
    \cup {Obj("oneOf" :> Arr(<<NestedObjects(n), NestedArrays(n)>>)) : n \in 1..2}

\* A contradictory sub-schema where generation does not go, or goes only
\* for some draws: an optional property, a composition branch, an element
\* schema.
RefusedDocs ==
    BadDocs
    \cup {ObjectDoc(("cat" :> bad) @@ ("id" :> BooleanDoc), <<"id">>) : bad \in BadDocs}
    \cup {Obj(keyword :> Arr(<<BooleanDoc, bad>>)) :
            keyword \in {"oneOf", "anyOf", "allOf"}, bad \in BadDocs}
    \cup {ObjectDoc("id" :> ObjectDoc("cat" :> bad, <<>>), <<"id">>) : bad \in BadDocs}
    \cup {Obj(Typed("array") @@ ("items" :> bad) @@ ("minItems" :> N(1))) : bad \in BadDocs}

Docs == {Malformed} \cup ObjectDocs \cup ConstDocs \cup EnumDocs \cup NestedDocs \cup RefusedDocs

\* ---------------------------------------------------------------- behaviour
NoValidation == [doc |-> Nil, errors |-> <<>>]

Init ==
    /\ gens \in [{1} -> {NewGenerator(seed) : seed \in Seeds}]
    /\ outs = [i \in {1} |-> NoCall]
    /\ vout = NoValidation

\* The operations on the instances, with generation calls drawn from docs.
\* A caller that wants reproducible output seeds before each run, so a
\* generation call is made on an instance that is Ready.
Operations(docs, envs, ctxs) ==
    \E i \in DOMAIN gens :
        \/ \E seed \in Seeds : Construct(i, seed)
        \/ \E seed \in Seeds : SetSeed(i, seed)
        \/ \E depth \in Depths : SetMaxDepth(i, depth)
        \/ \E all \in BOOLEAN : SetGenerateAllFields(i, all)
        \/ Ready(i) /\ \E doc \in docs, env \in envs : Generate(i, doc, env)
        \/ Ready(i) /\ \E doc \in docs, env \in envs : GenerateBytes(i, doc, env)
        \/ Ready(i) /\ \E doc \in docs, env \in envs, ctx \in ctxs :
                          GenerateWithContext(i, ctx, doc, env)

Next == Operations(Docs, OrderEnvs, Contexts)

Spec == Init /\ [][Next]_vars

\* ---------------------------------------------------------------- two instances
PatternDoc(pattern) == Obj(Typed("string") @@ ("pattern" :> Str(pattern)))

TwoFields == ObjectDoc(("cat" :> IntegerDoc(0, 3)) @@ ("id" :> BooleanDoc), <<"cat", "id">>)

DetDocs ==
    {TwoFields,
     ObjectDoc("cat" :> IntegerDoc(0, 3), <<"cat">>),
     IntegerDoc(0, 3),
     StringDoc(4, 5),
     NestedArrays(1),
     Obj("enum" :> Arr(<<Str("a"), Str("b"), Str("c")>>))}

InitDet ==
    /\ gens \in [{1, 2} -> {NewGenerator(seed) : seed \in Seeds}]
    /\ outs = [i \in {1, 2} |-> NoCall]
    /\ vout = NoValidation

\* Two instances, each seeded and then asked to generate.
NextDet ==
    \E i \in DOMAIN gens :
        \/ \E seed \in Seeds : SetSeed(i, seed)
        \/ Ready(i) /\ \E doc \in DetDocs, env \in Envs : Generate(i, doc, env)
        \/ Ready(i) /\ \E doc \in DetDocs, env \in Envs : GenerateBytes(i, doc, env)

SpecDet == InitDet /\ [][NextDet]_vars

GenerationOps == {"Generate", "GenerateBytes", "GenerateWithContext"}
Called(o) == o.op \in GenerationOps

\* C1: two instances seeded with the same seed and otherwise configured
\* alike, given the same document by the same operation, return the same
\* value, error and bytes.
Determinism ==
    \A i, j \in DOMAIN outs :
        (/\ Called(outs[i]) /\ Called(outs[j])
         /\ outs[i].op = outs[j].op
         /\ outs[i].doc = outs[j].doc
         /\ outs[i].ctx = Background /\ outs[j].ctx = Background
         /\ outs[i].pre = outs[j].pre
         /\ Fresh(outs[i].pre))
        => /\ outs[i].val = outs[j].val
           /\ outs[i].err = outs[j].err
           /\ outs[i].bytes = outs[j].bytes

\* ---------------------------------------------------------------- validation
\* The places where a Schema holds a child schema: a property, items in
\* single and in tuple form, an additionalProperties schema, a branch of
\* oneOf, anyOf or allOf.
Holders == {"properties", "items", "tuple", "additionalProperties", "oneOf", "anyOf", "allOf"}

\* A schema that holds inner in the place named by holder.
Hold(holder, inner) ==
    CASE holder = "properties" ->
            ObjectDoc(("cat" :> BooleanDoc) @@ ("id" :> inner), <<>>)
      [] holder = "items" -> Obj(Typed("array") @@ ("items" :> inner))
      [] holder = "tuple" -> Obj(Typed("array") @@ ("items" :> Arr(<<BooleanDoc, inner>>)))
      [] holder = "additionalProperties" ->
            Obj(Typed("object") @@ ("additionalProperties" :> inner))
      [] OTHER -> Obj(holder :> Arr(<<BooleanDoc, inner>>))

\* Sound and contradictory schemas at the root, one and two holders deep,
\* and two contradictory properties side by side.
ValDocs ==
    LET leaves == BadDocs \cup {IntegerDoc(0, 3)}
        once == {Hold(h, leaf) : h \in Holders, leaf \in leaves}
        twice == {Hold(h, inner) : h \in Holders, inner \in once}
    IN  leaves \cup once \cup twice
        \cup {ObjectDoc(("cat" :> a) @@ ("id" :> b), <<>>) : a, b \in BadDocs}

InitVal ==
    /\ gens = [i \in {1} |-> NewGenerator(0)]
    /\ outs = [i \in {1} |-> NoCall]
    /\ vout = NoValidation

NextVal == \E doc \in ValDocs, ord \in Orders : ValidateDoc(doc, ord)

SpecVal == InitVal /\ [][NextVal]_vars

\* The number under keyword k of document d is present.
HasNumber(d, k) == k \in DOMAIN d.v /\ d.v[k].t = "num"

\* lo and hi are both present in d, and lo exceeds hi (or equals it, when
\* the pair is strict).
Inverted(d, lo, hi, strict) ==
    /\ HasNumber(d, lo) /\ HasNumber(d, hi)
    /\ IF strict THEN d.v[lo].v >= d.v[hi].v ELSE d.v[lo].v > d.v[hi].v

Contradictory(d) ==
    \/ Inverted(d, "minimum", "maximum", FALSE)
    \/ Inverted(d, "exclusiveMinimum", "exclusiveMaximum", TRUE)
    \/ Inverted(d, "minLength", "maxLength", FALSE)
    \/ Inverted(d, "minItems", "maxItems", FALSE)

RECURSIVE OffendingPaths(_, _)
\* The paths of the contradictory sub-schemas of document d, which is at path.
OffendingPaths(d, path) ==
    IF d.t # "obj" THEN {}
    ELSE LET under(k) == IF k \in DOMAIN d.v THEN d.v[k] ELSE Nil
             props == under("properties")
             items == under("items")
             branches(k) ==
                 IF under(k).t = "arr"
                 THEN UNION {OffendingPaths(under(k).v[i], IndexPath(path, k, i - 1)) :
                                i \in 1..Len(under(k).v)}
                 ELSE {}
         IN  (IF Contradictory(d) THEN {path} ELSE {})
             \cup (IF props.t = "obj"
                   THEN UNION {OffendingPaths(props.v[k], PropPath(path, k)) :
                                  k \in DOMAIN props.v}
                   ELSE {})
             \cup (IF items.t = "obj" THEN OffendingPaths(items, PropPath(path, "items"))
                   ELSE branches("items"))
             \cup OffendingPaths(under("additionalProperties"),
                                 PropPath(path, "additionalProperties"))
             \cup branches("oneOf") \cup branches("anyOf") \cup branches("allOf")

Validated == vout # NoValidation

\* C2: every contradictory sub-schema of a validated document, wherever it
\* is held and however deep, has an error in the result whose path is the
\* path of that sub-schema.
ValidatorComplete ==
    Validated =>
        \A p \in OffendingPaths(vout.doc, "") :
            \E i \in 1..Len(vout.errors) : vout.errors[i].Path = p

\* ---------------------------------------------------------------- refusal
\* Validation of the parsed document yields at least one error.
Contradicted(doc) ==
    \E parsed \in {ParseSchema(doc)} :
        /\ parsed.ok
        /\ \E ord \in Orders : Len(ValidateWithDetails(parsed.s, "", ord)) > 0

\* C3: a generation call on a document whose validation yields an error
\* returns an error, no value and no bytes.
Refusal ==
    \A i \in DOMAIN outs :
        (Called(outs[i]) /\ Contradicted(outs[i].doc))
        => /\ outs[i].err # ""
           /\ outs[i].val = Nil
           /\ outs[i].bytes = ""

\* A call was refused although the contradictory sub-schema is an optional
\* property that generation would have skipped.
RefusalWitness ==
    \E i \in DOMAIN outs, bad \in BadDocs :
        /\ outs[i].op = "GenerateWithContext"
        /\ outs[i].doc = ObjectDoc(("cat" :> bad) @@ ("id" :> BooleanDoc), <<"id">>)
        /\ ~outs[i].pre.GenerateAllFields
        /\ outs[i].err = "invalid schema"
        /\ outs[i].val = Nil

\* ---------------------------------------------------------------- required fields
\* The document is an object schema and nothing else: it declares the type
\* and at most properties and required.
IsObjectDoc(doc) ==
    /\ doc.t = "obj"
    /\ DOMAIN doc.v \subseteq {"type", "properties", "required"}
    /\ "type" \in DOMAIN doc.v
    /\ doc.v["type"] = Str("object")

\* The names the document lists in required.
RequiredNames(doc) ==
    IF "required" \in DOMAIN doc.v
    THEN {doc.v["required"].v[k].v : k \in 1..Len(doc.v["required"].v)}
    ELSE {}

\* The operations that return the generated value itself.
ValueOps == {"Generate", "GenerateWithContext"}
\* Outcome o is a value returned without error.
Returned(o) == o.op \in ValueOps /\ o.err = ""

\* C4: the object returned for an object schema with generateAllFields
\* off has exactly the names listed in required as its keys.
RequiredComplete ==
    \A i \in DOMAIN outs :
        (/\ Returned(outs[i])
         /\ IsObjectDoc(outs[i].doc)
         /\ ~outs[i].pre.GenerateAllFields)
        => /\ outs[i].val.t = "obj"
           /\ DOMAIN outs[i].val.v = RequiredNames(outs[i].doc)

\* ---------------------------------------------------------------- numeric bounds
\* One instance, seeded and then asked to generate from a document of docs.
Generating(seeds, docs, envs) ==
    \E i \in DOMAIN gens :
        \/ \E seed \in seeds : SetSeed(i, seed)
        \/ Ready(i) /\ \E doc \in docs, env \in envs : Generate(i, doc, env)

\* A bound of a numeric schema: absent, or a number in fixed-point units.
Bounds == {Nil} \cup {Num(n) : n \in 0..MaxNum}

\* The keyword with its bound, nothing when the bound is absent.
Keyword(k, bound) == IF IsNil(bound) THEN <<>> ELSE k :> bound

NumberDoc(type, minimum, maximum, exclusiveMinimum, exclusiveMaximum) ==
    Obj(Typed(type) @@ Keyword("minimum", minimum) @@ Keyword("maximum", maximum)
        @@ Keyword("exclusiveMinimum", exclusiveMinimum)
        @@ Keyword("exclusiveMaximum", exclusiveMaximum))

NumDocs ==
    {NumberDoc(type, mn, mx, xmn, xmx) :
        type \in {"integer", "number"}, mn \in Bounds, mx \in Bounds,
        xmn \in Bounds, xmx \in Bounds}

NextNum == Generating(Seeds, NumDocs, OrderEnvs)

SpecNum == Init /\ [][NextNum]_vars

\* C5: a number returned for a schema of type integer or number is at
\* least minimum, at most maximum, above exclusiveMinimum and below
\* exclusiveMaximum, for each of the four that the schema declares.
NumberWithinBounds ==
    \A i \in DOMAIN outs :
        (Returned(outs[i]) /\ outs[i].doc \in NumDocs)
        => LET d == outs[i].doc
               x == Scaled(outs[i].val)
           IN  /\ outs[i].val.t \in {"int", "num"}
               /\ HasNumber(d, "minimum") => x >= d.v["minimum"].v
               /\ HasNumber(d, "maximum") => x <= d.v["maximum"].v
               /\ HasNumber(d, "exclusiveMinimum") => x > d.v["exclusiveMinimum"].v
               /\ HasNumber(d, "exclusiveMaximum") => x < d.v["exclusiveMaximum"].v

\* ---------------------------------------------------------------- string bounds
\* A length bound of a string schema: absent, or a whole number.
Lengths == {Nil} \cup {N(n) : n \in 0..MaxLen}

\* What else a string schema says: nothing, a pattern (one of them not a
\* regular expression), or a format (one of them unknown).
Shapes ==
    {<<>>}
    \cup {"pattern" :> Str(p) : p \in {"^[0-9]{5}$", "^a+$", "("}}
    \cup {"format" :> Str(f) : f \in {"uuid", "email", "zip"}}

StrDocs ==
    {Obj(Typed("string") @@ Keyword("minLength", lo) @@ Keyword("maxLength", hi) @@ shape) :
        lo \in Lengths, hi \in Lengths, shape \in Shapes}

NextStr == Generating(Seeds, StrDocs, Envs)

SpecStr == Init /\ [][NextStr]_vars

\* C6: a string returned for a schema of type string is at least minLength
\* and at most maxLength long, for each of the two that the schema declares.
StringWithinBounds ==
    \A i \in DOMAIN outs :
        (Returned(outs[i]) /\ outs[i].doc \in StrDocs)
        => LET d == outs[i].doc
               length == Len(outs[i].val.v) * Scale
           IN  /\ outs[i].val.t = "str"
               /\ HasNumber(d, "minLength") => length >= d.v["minLength"].v
               /\ HasNumber(d, "maxLength") => length <= d.v["maxLength"].v

\* ---------------------------------------------------------------- array bounds
MaxItems == 2

\* A bound on the element count: absent, or a whole number (one below zero).
Counts == {Nil} \cup {N(n) : n \in (-1)..MaxItems}

InnerArray == Obj(Typed("array") @@ ("minItems" :> N(1)) @@ ("maxItems" :> N(2)))

\* What an array schema says of its elements: nothing, one schema for all,
\* a schema per position, or something that is no schema.
ItemShapes ==
    {<<>>}
    \cup {"items" :> items :
            items \in {BooleanDoc, InnerArray, Arr(<<BooleanDoc, IntegerDoc(0, 3)>>), N(1)}}

\* Array schemas, the type declared or left to be inferred from items.
ArrDocs ==
    {Obj(type @@ Keyword("minItems", lo) @@ Keyword("maxItems", hi) @@ shape) :
        type \in {<<>>, Typed("array")}, lo \in Counts, hi \in Counts, shape \in ItemShapes}

\* Every state of the stream is seeded.
NextArr == Generating(0..(RandMod - 1), ArrDocs, OrderEnvs)

SpecArr == Init /\ [][NextArr]_vars

\* The element count the array schema d asks for, absent bounds defaulted:
\* at least lo, at most hi.
CountMin(d) == IF HasNumber(d, "minItems") THEN d.v["minItems"].v \div Scale ELSE 0
CountMax(d) ==
    LET hi == IF HasNumber(d, "maxItems") THEN d.v["maxItems"].v \div Scale ELSE 5
    IN  IF hi < CountMin(d) THEN CountMin(d) ELSE hi

CountWithin(val, d) == CountMin(d) <= Len(val.v) /\ Len(val.v) <= CountMax(d)

Generated(o, n) ==
    /\ o.op \in ValueOps
    /\ ParseSchema(o.doc).ok
    /\ ~Contradicted(o.doc)
    /\ ~Done(o.ctx, n - 1)
    /\ o.pre.MaxDepth >= n

\* C8: a call on a schema that declares const returns the declared literal,
\* whatever else the schema declares, and leaves both streams where they
\* were.
ConstFidelity ==
    \A i \in DOMAIN outs :
        (/\ Called(outs[i])
         /\ Generated(outs[i], 1)
         /\ outs[i].doc.t = "obj"
         /\ "const" \in DOMAIN outs[i].doc.v)
        => /\ outs[i].err = ""
           /\ outs[i].val = outs[i].doc.v["const"]
           /\ outs[i].draws = 0
           /\ gens[i] = outs[i].pre

\* The document declares a non-empty enum and no const.
IsEnumDoc(d) ==
    /\ d.t = "obj"
    /\ "enum" \in DOMAIN d.v
    /\ d.v["enum"].t = "arr"
    /\ Len(d.v["enum"].v) > 0
    /\ "const" \notin DOMAIN d.v

Elements(d) == {d.v["enum"].v[k] : k \in 1..Len(d.v["enum"].v)}

\* The one property of an object schema with a single required property.
OnlyProperty(d) == d.v["properties"].v["cat"]
HasOnlyProperty(d) ==
    /\ IsObjectDoc(d)
    /\ DOMAIN d.v = {"type", "properties", "required"}
    /\ DOMAIN d.v["properties"].v = {"cat"}
    /\ RequiredNames(d) = {"cat"}

\* C9: a call on a schema with a non-empty enum and no const returns one
\* of the elements of the enum, whatever else the schema declares, after
\* exactly one draw from the stream; so does the call for a required
\* property with such a schema.
EnumFidelity ==
    \A i \in DOMAIN outs :
        Called(outs[i]) =>
            /\ (Generated(outs[i], 1) /\ IsEnumDoc(outs[i].doc))
               => /\ outs[i].err = ""
                  /\ outs[i].val \in Elements(outs[i].doc)
                  /\ outs[i].draws = 1
                  /\ gens[i] = [outs[i].pre EXCEPT !.rand = RandNext(@)]
            /\ (/\ Generated(outs[i], 2)
                /\ HasOnlyProperty(outs[i].doc)
                /\ IsEnumDoc(OnlyProperty(outs[i].doc)))
               => /\ outs[i].err = ""
                  /\ outs[i].val.v["cat"] \in Elements(OnlyProperty(outs[i].doc))
                  /\ outs[i].draws = 1

\* A call on a schema with an enum of three and a type that none of them
\* has returned the last element, the depth limit at its smallest.
EnumWitness ==
    \E i \in DOMAIN outs :
        /\ Called(outs[i])
        /\ Generated(outs[i], 1)
        /\ outs[i].pre.MaxDepth = 1
        /\ outs[i].doc = Obj(("enum" :> Arr(<<Str("a"), Str("b"), Str("c")>>))
                             @@ Typed("integer") @@ ("minimum" :> N(2))
                             @@ ("maximum" :> N(3)))
        /\ outs[i].val = Str("c")

\* ---------------------------------------------------------------- depth
RECURSIVE Levels(_)
\* The levels below the root of document d that a run has to generate: one
\* more than those of a required declared property of an object schema, or
\* those of the element schema of an array schema with at least one
\* element.
Levels(d) ==
    IF d.t # "obj" THEN 0
    ELSE IF IsObjectDoc(d) /\ "properties" \in DOMAIN d.v
    THEN LET need == RequiredNames(d) \cap DOMAIN d.v["properties"].v
             below == {1 + Levels(d.v["properties"].v[k]) : k \in need} \cup {0}
         IN  CHOOSE n \in below : \A m \in below : m <= n
    ELSE IF /\ DOMAIN d.v = {"type", "items", "minItems", "maxItems"}
            /\ d.v["type"] = Str("array")
            /\ d.v["minItems"].v >= Scale
    THEN 1 + Levels(d.v["items"])
    ELSE 0

\* err is cause, or cause wrapped any number of times.
HasCause(err, cause) ==
    /\ Len(err) >= Len(cause)
    /\ SubSeq(err, Len(err) - Len(cause) + 1, Len(err)) = cause

DepthError == "maximum recursion depth exceeded"

\* C10: no call returns a value for a level at or beyond the depth limit,
\* and a call on a schema that has to generate such a level returns an
\* error and no value, the depth error when nothing is cancelled.
DepthEnforced ==
    \A i \in DOMAIN outs :
        Called(outs[i]) =>
            /\ outs[i].okd < outs[i].pre.MaxDepth
            /\ (/\ ParseSchema(outs[i].doc).ok
                /\ ~Contradicted(outs[i].doc)
                /\ Levels(outs[i].doc) >= outs[i].pre.MaxDepth)
               => /\ outs[i].err # ""
                  /\ outs[i].val = Nil
                  /\ outs[i].bytes = ""
                  /\ outs[i].ctx = Background => HasCause(outs[i].err, DepthError)

\* Four nested objects with the limit at three: the call went down to the
\* fourth object and failed there.
DepthWitness ==
    \E i \in DOMAIN outs :
        /\ outs[i].op = "Generate"
        /\ outs[i].doc = NestedObjects(4)
        /\ outs[i].pre.MaxDepth = 3
        /\ outs[i].calls = 4
        /\ HasCause(outs[i].err, DepthError)
        /\ outs[i].val = Nil

\* ---------------------------------------------------------------- cancellation
CancelError == "generation cancelled"

\* Outcome o is of a GenerateWithContext call that got to generation with a
\* context whose signal was active when one of its recursive calls began.
CancelledInFlight(o) ==
    /\ o.op = "GenerateWithContext"
    /\ o.ctx.t = "cancel"
    /\ ParseSchema(o.doc).ok
    /\ ~Contradicted(o.doc)
    /\ o.calls > o.ctx.at

\* C11: a GenerateWithContext call one of whose recursive calls began with
\* the cancellation signal active returns the cancellation error and no
\* value.
CancellationObserved ==
    \A i \in DOMAIN outs :
        (Called(outs[i]) /\ CancelledInFlight(outs[i]))
        => /\ HasCause(outs[i].err, CancelError)
           /\ outs[i].val = Nil

\* ---------------------------------------------------------------- failures
\* C12: a call in which any recursive generation call failed returns an
\* error, no value and no bytes.
FailFast ==
    \A i \in DOMAIN outs :
        (Called(outs[i]) /\ outs[i].fails > 0)
        => /\ outs[i].err # ""
           /\ outs[i].val = Nil
           /\ outs[i].bytes = ""

\* ---------------------------------------------------------------- tuples
\* The schemas of the positions of a tuple, told apart by what they generate.
TupleLeaves == {BooleanDoc, IntegerDoc(0, 3), StringDoc(1, 1), Obj("const" :> Str("x"))}

MaxTuple == 3

\* Tuples of up to MaxTuple positional schemas.
Tuples == UNION {[1..n -> TupleLeaves] : n \in 0..MaxTuple}

\* Array schemas with tuple items: the element count left to the defaults
\* (0 to 5), or at least five.
TupleDocs ==
    {Obj(Typed("array") @@ ("items" :> Arr(tuple)) @@ Keyword("minItems", lo)) :
        tuple \in Tuples, lo \in {Nil, N(5)}}

NextTuple == Generating(0..(RandMod - 1), TupleDocs, OrderEnvs)

SpecTuple == Init /\ [][NextTuple]_vars

\* Value val is one that schema document d of TupleLeaves describes.
Conforms(val, d) ==
    CASE d = BooleanDoc -> val.t = "bool"
      [] d = IntegerDoc(0, 3) -> val.t = "int" /\ 0 <= val.v /\ val.v <= 3
      [] d = StringDoc(1, 1) -> val.t = "str" /\ Len(val.v) = 1
      [] OTHER -> val = d.v["const"]

IsWord(val) == val.t = "str" /\ \E k \in 1..Len(Words) : val.v = Words[k]

\* C13: in the array returned for a schema with tuple items, each element
\* at a position of the tuple is one its positional schema describes, each
\* element beyond the tuple is a word, and with minItems 5 there are at
\* least five elements.
TuplePositions ==
    \A i \in DOMAIN outs :
        (Returned(outs[i]) /\ outs[i].doc \in TupleDocs)
        => LET items == outs[i].doc.v["items"].v
               val == outs[i].val
           IN  /\ val.t = "arr"
               /\ \A k \in 1..Len(val.v) :
                     IF k <= Len(items) THEN Conforms(val.v[k], items[k])
                     ELSE IsWord(val.v[k])
               /\ HasNumber(outs[i].doc, "minItems") => Len(val.v) >= 5

\* With minItems 5 and a tuple of three, five elements were returned: a
\* boolean, an integer, a one-letter string and two words.
TupleWitness ==
    \E i \in DOMAIN outs :
        /\ Returned(outs[i])
        /\ outs[i].doc = Obj(Typed("array") @@ ("minItems" :> N(5))
                             @@ ("items" :> Arr(<<BooleanDoc, IntegerDoc(0, 3),
                                                  StringDoc(1, 1)>>)))
        /\ Len(outs[i].val.v) = 5
        /\ outs[i].val.v[1].t = "bool"
        /\ outs[i].val.v[2].t = "int"
        /\ Len(outs[i].val.v[3].v) = 1
        /\ IsWord(outs[i].val.v[4]) /\ IsWord(outs[i].val.v[5])

\* ---------------------------------------------------------------- re-seeding
SeedDocs == {TwoFields, IntegerDoc(0, 3), StringDoc(4, 5)}

\* Instance 1 generates whenever it likes, re-seeded or not; instance 2 is
\* the fresh one, which generates once after it has been seeded.
NextSeed ==
    \/ \E i \in DOMAIN gens, seed \in Seeds : SetSeed(i, seed)
    \/ \E doc \in SeedDocs, env \in OrderEnvs : Generate(1, doc, env)
    \/ \E doc \in SeedDocs, env \in OrderEnvs : Ready(2) /\ Generate(2, doc, env)

SpecSeed == InitDet /\ [][NextSeed]_vars

\* C14: a call made by instance 1 right after SetSeed(K), whatever it
\* generated before, returns what the fresh instance 2 returns for the same
\* document right after SetSeed(K).
Reseeded ==
    (/\ Called(outs[1]) /\ Called(outs[2])
     /\ Fresh(outs[1].pre)
     /\ outs[1].pre.Seed = outs[2].pre.Seed
     /\ outs[1].doc = outs[2].doc)
    => /\ outs[1].val = outs[2].val
       /\ outs[1].err = outs[2].err

\* ---------------------------------------------------------------- concurrent instances
\* Objects with both properties required, each property drawing from a stream.
ConcDocs ==
    {ObjectDoc(props, <<"cat", "id">>) :
        props \in [PropNames -> {IntegerDoc(0, 3), StringDoc(4, 5)}]}

\* All instances on the streams of the first one.
SharedStreams(i) == 1

\* The instance whose streams a step of instance i reads and advances: the
\* receiver g of the method (g.rand, g.faker).
Receiver(i) == i

Running(i) == outs[i].op = "running"

\* Instance i enters Generate on an object schema: the document is parsed
\* and validated and the range over its properties is set up.  overlap
\* tells whether another instance was in the middle of a run at that time.
Begin(i, doc, env) ==
    \E parsed \in {ParseSchema(doc)} :
        /\ parsed.ok
        /\ IsNil(Validate(parsed.s, env.ord))
        /\ outs' = [outs EXCEPT ![i] =
                      [op |-> "running", pre |-> gens[i], doc |-> doc, env |-> env,
                       names |-> Range(parsed.s.Properties.v, env.ord), result |-> <<>>,
                       overlap |-> \E j \in DOMAIN outs \ {i} : Running(j)]]
        /\ UNCHANGED <<gens, vout>>

\* What a run of instance i leaves in outs[i] when it returns.
Stepped(o, val, err) ==
    [op |-> "Stepped", pre |-> o.pre, doc |-> o.doc, env |-> o.env,
     val |-> val, err |-> err, overlap |-> o.overlap]

\* One iteration of the loop of generateObject in the run of instance i, or
\* its return when the range is over.
Step(i) ==
    LET o == outs[i]
        k == Receiver(i)
    IN  /\ Running(i)
        /\ IF Len(o.names) = 0
           THEN /\ outs' = [outs EXCEPT ![i] = Stepped(o, Obj(o.result), "")]
                /\ UNCHANGED <<gens, vout>>
           ELSE \E r \in {generateFields(Run(gens[k], o.env, Background),
                                         ParseSchema(o.doc).s, <<Head(o.names)>>,
                                         o.result, 0)} :
                    /\ gens' = [gens EXCEPT ![k] = r.c.g]
                    /\ outs' = [outs EXCEPT ![i] =
                                  IF r.err # "" THEN Stepped(o, Nil, r.err)
                                  ELSE [o EXCEPT !.names = Tail(@), !.result = r.val.v]]
                    /\ UNCHANGED vout

\* Two instances, each seeded between its runs, their runs interleaved step
\* by step.
NextConc ==
    \E i \in DOMAIN gens :
        \/ \E seed \in Seeds : ~Running(i) /\ SetSeed(i, seed)
        \/ Ready(i) /\ \E doc \in ConcDocs, env \in OrderEnvs : Begin(i, doc, env)
        \/ Step(i)

SpecConc == InitDet /\ [][NextConc]_vars

\* C15: a run of an instance, whatever steps of another instance came in
\* between its own, returns the value and error, and leaves its streams in
\* the state, of the same run made alone in one piece.
Independent ==
    \A i \in DOMAIN outs :
        outs[i].op = "Stepped" =>
            \E alone \in {Generation(outs[i].pre, Background, outs[i].doc, outs[i].env)} :
                /\ outs[i].val = alone.val
                /\ outs[i].err = alone.err
                /\ gens[i] = alone.c.g

\* Instance 2 began while instance 1 was in the middle of a run, and both
\* have returned, from different seeds.
ConcurrentWitness ==
    /\ outs[1].op = "Stepped" /\ outs[2].op = "Stepped"
    /\ outs[2].overlap
    /\ outs[1].pre.Seed # outs[2].pre.Seed
    /\ outs[1].val.t = "obj" /\ outs[2].val.t = "obj"

\* ---------------------------------------------------------------- composition
Compositions == {"oneOf", "anyOf", "allOf"}

RECURSIVE Wrapped(_, _, _)
\* n composition wrappers of one branch each around a leaf
Wrapped(kw, n, leaf) ==
    IF n = 0 THEN leaf ELSE Obj(kw :> Arr(<<Wrapped(kw, n - 1, leaf)>>))

Chains == {Wrapped(kw, n, BooleanDoc) : kw \in Compositions, n \in 1..MaxNesting}

RECURSIVE Links(_)
\* The number of wrappers of a chain.
Links(doc) ==
    IF \E kw \in Compositions : kw \in DOMAIN doc.v
    THEN 1 + Links(doc.v[CHOOSE kw \in Compositions : kw \in DOMAIN doc.v].v[1])
    ELSE 0

\* A composition keyword with no branch, alone or beside other keywords.
EmptyLists ==
    {Obj((kw :> Arr(<<>>)) @@ other) :
        kw \in Compositions,
        other \in {<<>>, Typed("boolean"), "properties" :> Obj(<<>>)}}

\* The keywords that decide what a node generates, in the order in which
\* the specification ranks them.
Precedence == <<"const", "enum", "oneOf", "anyOf", "allOf", "type", "properties">>

Branch(word) == Arr(<<Obj("const" :> Str(word))>>)

\* Every combination of the deciding keywords, each with a value that
\* tells it from the others; const is a string or null.
PrecedenceDocs ==
    {Obj(const @@ enum @@ oneOf @@ anyOf @@ allOf @@ type @@ properties) :
        const \in {<<>>, "const" :> Str("k"), "const" :> Nil},
        enum \in {<<>>, "enum" :> Arr(<<N(1)>>)},
        oneOf \in {<<>>, "oneOf" :> Branch("one")},
        anyOf \in {<<>>, "anyOf" :> Branch("any")},
        allOf \in {<<>>, "allOf" :> Branch("all")},
        type \in {<<>>, Typed("boolean")},
        properties \in {<<>>, "properties" :> Obj(<<>>)}}

\* Branches of an allOf: sound ones of different types and keys, one of a
\* type that cannot be generated, one with contradictory bounds.
AllOfBranches ==
    {BooleanDoc, IntegerDoc(0, 3),
     ObjectDoc("cat" :> IntegerDoc(0, 3), <<"cat">>),
     ObjectDoc("id" :> StringDoc(4, 5), <<"id">>),
     Obj(Typed("invalid")),
     Obj(Typed("integer") @@ ("minimum" :> N(3)) @@ ("maximum" :> N(1)))}

\* An allOf of one or two branches, alone or beside a declared type.
AllOfDocs ==
    {Obj(("allOf" :> Arr(branches)) @@ other) :
        branches \in [{1} -> AllOfBranches] \cup [{1, 2} -> AllOfBranches],
        other \in {<<>>, Typed("string")}}

CompDocs == Chains \cup EmptyLists \cup PrecedenceDocs \cup AllOfDocs

NextComp == Operations(CompDocs, OrderEnvs, Contexts)

SpecComp == Init /\ [][NextComp]_vars

\* C16: the branch of a composition is generated one level below the node
\* that holds it: a call on a chain of n wrappers fails with the depth error
\* and no value when n has reached the depth limit, and otherwise returns a
\* value generated at level n.
CompositionDescends ==
    \A i \in DOMAIN outs :
        (/\ outs[i].op \in ValueOps
         /\ outs[i].ctx = Background
         /\ outs[i].doc \in Chains) =>
            IF Links(outs[i].doc) >= outs[i].pre.MaxDepth
            THEN HasCause(outs[i].err, DepthError) /\ outs[i].val = Nil
            ELSE outs[i].err = "" /\ outs[i].okd = Links(outs[i].doc)

\* C17: a generation call on a schema whose oneOf, anyOf or allOf is an
\* empty list, and that has neither const nor enum, returns an error and no
\* value.
EmptyCompositionFails ==
    \A i \in DOMAIN outs :
        (Called(outs[i]) /\ outs[i].doc \in EmptyLists) =>
            outs[i].err # "" /\ outs[i].val = Nil /\ outs[i].bytes = ""

\* The earliest keyword of the order that a document carries, "" when it
\* carries none.
Decisive(doc) ==
    IF \E k \in 1..Len(Precedence) : Precedence[k] \in DOMAIN doc.v
    THEN Precedence[CHOOSE k \in 1..Len(Precedence) :
            /\ Precedence[k] \in DOMAIN doc.v
            /\ \A j \in 1..(k - 1) : Precedence[j] \notin DOMAIN doc.v]
    ELSE ""

\* val is what keyword kw of doc generates on its own.
Decides(kw, doc, val) ==
    CASE kw = "const" -> val = doc.v["const"]
      [] kw = "enum" -> val = N(1)
      [] kw = "oneOf" -> val = Str("one")
      [] kw = "anyOf" -> val = Str("any")
      [] kw = "allOf" -> val = Str("all")
      [] kw = "type" -> val.t = "bool"
      [] OTHER -> val = Obj(<<>>)

\* C18: a call on a node that carries several deciding keywords returns
\* the cancellation error when the context is done, else the depth error
\* when the depth limit is 0, else the value of the earliest keyword in the
\* order const, enum, oneOf, anyOf, allOf, type, inference.
DispatchPrecedence ==
    \A i \in DOMAIN outs :
        (outs[i].op \in ValueOps /\ outs[i].doc \in PrecedenceDocs) =>
            IF Done(outs[i].ctx, 0)
            THEN HasCause(outs[i].err, CancelError) /\ outs[i].val = Nil
            ELSE IF outs[i].pre.MaxDepth <= 0
            THEN HasCause(outs[i].err, DepthError) /\ outs[i].val = Nil
            ELSE /\ outs[i].err = ""
                 /\ Decides(Decisive(outs[i].doc), outs[i].doc, outs[i].val)

\* ---------------------------------------------------------------- validator order
\* C19: the list a call of ValidateWithDetails returned for a document is
\* the list that any call on that document returns, whatever order the run
\* time ranges over the properties in, and Validate on that document
\* returns the first element of that list, or nil when the list is empty.
StableOrder ==
    Validated =>
        \E parsed \in {ParseSchema(vout.doc)} :
            \A ord \in Orders :
                /\ ValidateWithDetails(parsed.s, "", ord) = vout.errors
                /\ Validate(parsed.s, ord) =
                       IF Len(vout.errors) = 0 THEN Nil ELSE vout.errors[1]

\* ---------------------------------------------------------------- allOf
\* The call of o returned what a call on allOf[0] alone returns from the
\* same instance state: the same value and error after the same number of
\* draws.
AsFirstAlone(o) ==
    \A env \in OrderEnvs :
        \E alone \in {Generation(o.pre, o.ctx, o.doc.v["allOf"].v[1], env)} :
            /\ o.val = alone.val
            /\ o.err = alone.err
            /\ o.draws = alone.c.draws

\* C20 as stated: every call on a schema with a non-empty allOf returns
\* what allOf[0] alone returns, whatever the other branches are.
AllOfFirstAlways ==
    \A i \in DOMAIN outs :
        (outs[i].op \in ValueOps /\ outs[i].doc \in AllOfDocs) => AsFirstAlone(outs[i])

\* C20, amended: a call on a schema with a non-empty allOf that passes
\* validation returns the value and error of allOf[0] alone and draws as
\* many numbers; the other branches add nothing to the value and cannot
\* make the call fail.
AllOfFirst ==
    \A i \in DOMAIN outs :
        (/\ outs[i].op \in ValueOps
         /\ outs[i].doc \in AllOfDocs
         /\ ~Contradicted(outs[i].doc)) => AsFirstAlone(outs[i])

\* A call returned an object with the key of the first branch alone, and
\* another returned a value although its second branch cannot be generated.
AllOfWitness ==
    \E i \in DOMAIN outs :
        /\ Returned(outs[i])
        /\ outs[i].pre.MaxDepth >= 2
        /\ \/ /\ outs[i].doc = Obj("allOf" :> Arr(<<ObjectDoc("cat" :> IntegerDoc(0, 3), <<"cat">>),
                                                   ObjectDoc("id" :> StringDoc(4, 5), <<"id">>)>>))
              /\ outs[i].val.t = "obj"
              /\ DOMAIN outs[i].val.v = {"cat"}
           \/ /\ outs[i].doc = Obj("allOf" :> Arr(<<IntegerDoc(0, 3), Obj(Typed("invalid"))>>))
              /\ outs[i].val.t = "num"

\* ---------------------------------------------------------------- object fields
\* What additionalProperties can be: absent, true, false, a schema of
\* strings, of integers, or of a type that cannot be generated.
Additionals ==
    {<<>>} \cup {"additionalProperties" :> ap :
                    ap \in {Bool(TRUE), Bool(FALSE), StringDoc(4, 5), IntegerDoc(0, 3),
                            Obj(Typed("invalid"))}}

\* Objects over every subset of the property names ("cat" is also a word
\* of the word source), with none, one or all of them required.
FieldDocs ==
    {Obj(ObjectDoc(props, required).v @@ additional) :
        props \in UNION {[names -> {BooleanDoc, IntegerDoc(0, 3)}] : names \in SUBSET PropNames},
        required \in {<<>>, <<"cat">>, <<"cat", "id">>},
        additional \in Additionals}

\* One instance: seeded, generateAllFields set, then asked to generate.
NextFields ==
    \E i \in DOMAIN gens :
        \/ \E seed \in 0..(RandMod - 1) : SetSeed(i, seed)
        \/ \E all \in BOOLEAN : SetGenerateAllFields(i, all)
        \/ Ready(i) /\ \E doc \in FieldDocs, env \in OrderEnvs : Generate(i, doc, env)

SpecFields == Init /\ [][NextFields]_vars

\* The names the document declares in properties.
Declared(doc) ==
    IF "properties" \in DOMAIN doc.v THEN DOMAIN doc.v["properties"].v ELSE {}

\* C21: in the object returned for an object schema, with generateAllFields
\* on every declared property is a key, and with generateAllFields off no
\* declared property that required does not name is a key.
AllFields ==
    \A i \in DOMAIN outs :
        (Returned(outs[i]) /\ outs[i].doc \in FieldDocs) =>
            /\ outs[i].val.t = "obj"
            /\ IF outs[i].pre.GenerateAllFields
               THEN Declared(outs[i].doc) \subseteq DOMAIN outs[i].val.v
               ELSE \A name \in Declared(outs[i].doc) \ RequiredNames(outs[i].doc) :
                        name \notin DOMAIN outs[i].val.v

\* With generateAllFields on an optional property is a key of the result,
\* and with it off a result leaves an optional property out.
AllFieldsWitness ==
    \E i \in DOMAIN outs :
        /\ Returned(outs[i])
        /\ outs[i].doc \in FieldDocs
        /\ Declared(outs[i].doc) = {"cat", "id"}
        /\ RequiredNames(outs[i].doc) = {"cat"}
        /\ outs[i].pre.GenerateAllFields
        /\ "id" \in DOMAIN outs[i].val.v

\* ---------------------------------------------------------------- additional properties
\* val is a value that generation from the child schema ap gives.
FromChild(val, ap) ==
    CASE ap = StringDoc(4, 5) -> val.t = "str" /\ Len(val.v) \in 4..5
      [] ap = IntegerDoc(0, 3) -> val.t = "int" /\ val.v \in 0..3
      [] OTHER -> FALSE

\* The keys of the returned object that are not declared properties.
ExtraKeys(o) == DOMAIN o.val.v \ Declared(o.doc)

\* C22: the object returned for an object schema has keys beyond the
\* declared properties only when generateAllFields is on and
\* additionalProperties is true or a schema; then it has at most two of
\* them, each a word, with a word as value for true and a value of the
\* child schema, generated one level down, for a schema.
AdditionalSynthesis ==
    \A i \in DOMAIN outs :
        (Returned(outs[i]) /\ outs[i].doc \in FieldDocs) =>
            LET ap == Field(outs[i].doc, "additionalProperties")
                val == outs[i].val.v
            IN  IF outs[i].pre.GenerateAllFields /\ ap \notin {Nil, Bool(FALSE)}
                THEN /\ Cardinality(ExtraKeys(outs[i])) <= 2
                     /\ \A key \in ExtraKeys(outs[i]) :
                            /\ IsWord(Str(key))
                            /\ IF ap = Bool(TRUE) THEN IsWord(val[key])
                               ELSE FromChild(val[key], ap) /\ outs[i].okd = 1
                ELSE ExtraKeys(outs[i]) = {}

\* Two extra entries were added, for true and for a child schema.
AdditionalWitness ==
    \E i \in DOMAIN outs :
        /\ Returned(outs[i])
        /\ outs[i].doc \in FieldDocs
        /\ Field(outs[i].doc, "additionalProperties") = IntegerDoc(0, 3)
        /\ Cardinality(ExtraKeys(outs[i])) = 2

\* The document without its additionalProperties keyword.
Plain(doc) == Obj([k \in DOMAIN doc.v \ {"additionalProperties"} |-> doc.v[k]])

\* C29: in an object generated with generateAllFields on and
\* additionalProperties true or a schema, the value under each declared
\* property name is the one generated from that property's schema: the one
\* the same call returns when the schema has no additionalProperties.
DeclaredKept ==
    \A i \in DOMAIN outs :
        (/\ Returned(outs[i])
         /\ outs[i].doc \in FieldDocs
         /\ outs[i].pre.GenerateAllFields
         /\ Field(outs[i].doc, "additionalProperties") \notin {Nil, Bool(FALSE)}) =>
            \E env \in OrderEnvs :
                \E plain \in {Generation(outs[i].pre, Background, Plain(outs[i].doc), env)} :
                    \A name \in Declared(outs[i].doc) :
                        outs[i].val.v[name] = plain.val.v[name]

\* ---------------------------------------------------------------- type inference
\* Schemas without a declared type, or with an empty sequence of types,
\* and with or without properties and items.
InferDocs ==
    {Obj(type @@ properties @@ items) :
        type \in {<<>>, "type" :> Arr(<<>>)},
        properties \in {<<>>, "properties" :> Obj(<<>>),
                        ("properties" :> Obj("cat" :> BooleanDoc)) @@ ("required" :> Strs(<<"cat">>))},
        items \in {<<>>, "items" :> IntegerDoc(0, 3),
                   ("items" :> Arr(<<BooleanDoc>>)) @@ ("maxItems" :> N(2))}}

NextInfer == Generating(0..(RandMod - 1), InferDocs, OrderEnvs)

SpecInfer == Init /\ [][NextInfer]_vars

\* The document with its type replaced by the declared type name.
Declare(doc, name) == Obj([k \in DOMAIN doc.v \cup {"type"} |->
                              IF k = "type" THEN Str(name) ELSE doc.v[k]])

\* The call of o returned what a call on doc returns from the same
\* instance state.
SameAs(o, doc) ==
    \E env \in OrderEnvs :
        \E declared \in {Generation(o.pre, o.ctx, doc, env)} :
            /\ o.val = declared.val
            /\ o.err = declared.err
            /\ o.draws = declared.c.draws

\* C23: a call on a schema with no declared type, or an empty sequence of
\* types, returns no error; it returns the object of the same schema
\* declared an object when properties is present, else the array of the
\* same schema declared an array when items is present, else the empty
\* object.
TypeInference ==
    \A i \in DOMAIN outs :
        (Called(outs[i]) /\ outs[i].doc \in InferDocs) =>
            /\ outs[i].err = ""
            /\ IF "properties" \in DOMAIN outs[i].doc.v
               THEN outs[i].val.t = "obj" /\ SameAs(outs[i], Declare(outs[i].doc, "object"))
               ELSE IF "items" \in DOMAIN outs[i].doc.v
               THEN outs[i].val.t = "arr" /\ SameAs(outs[i], Declare(outs[i].doc, "array"))
               ELSE outs[i].val = Obj(<<>>)

\* An array was returned for an empty sequence of types with items.
InferenceWitness ==
    \E i \in DOMAIN outs :
        /\ Returned(outs[i])
        /\ outs[i].doc = Obj(("type" :> Arr(<<>>)) @@ ("items" :> IntegerDoc(0, 3)))
        /\ outs[i].val.t = "arr"
        /\ Len(outs[i].val.v) > 0

\* ---------------------------------------------------------------- bounds conflict
\* A bound of a numeric schema, of either sign.
SignedBounds == {Nil} \cup {Num(n) : n \in (-MaxNum)..MaxNum}

SignedDocs ==
    {NumberDoc(type, mn, mx, xmn, xmx) :
        type \in {"integer", "number"}, mn \in SignedBounds, mx \in SignedBounds,
        xmn \in SignedBounds, xmx \in SignedBounds}

NextSigned == Generating(Seeds, SignedDocs, OrderEnvs)

SpecSigned == Init /\ [][NextSigned]_vars

IsInteger(d) == d.v["type"] = Str("integer")

\* The effective bounds of a numeric document, in fixed-point units.
EffectiveMin(d) ==
    IF HasNumber(d, "minimum") THEN d.v["minimum"].v
    ELSE IF HasNumber(d, "exclusiveMinimum")
         THEN IF IsInteger(d) THEN Ceil(d.v["exclusiveMinimum"].v)
              ELSE d.v["exclusiveMinimum"].v
    ELSE 0

EffectiveMax(d) ==
    IF HasNumber(d, "maximum") THEN d.v["maximum"].v
    ELSE IF HasNumber(d, "exclusiveMaximum")
         THEN IF IsInteger(d) THEN Floor(d.v["exclusiveMaximum"].v) - Scale
              ELSE d.v["exclusiveMaximum"].v
    ELSE 1000 * Scale

BoundsError == "minimum is greater than maximum"

\* C24: a call on a number or integer schema that passes validation and
\* whose effective minimum exceeds its effective maximum returns the
\* bounds error and no value.
BoundsConflict ==
    \A i \in DOMAIN outs :
        (/\ Called(outs[i])
         /\ outs[i].doc \in SignedDocs
         /\ ~Contradicted(outs[i].doc)
         /\ EffectiveMin(outs[i].doc) > EffectiveMax(outs[i].doc)) =>
            /\ HasCause(outs[i].err, BoundsError)
            /\ outs[i].val = Nil

\* The conflict came from a single bound, and from an inclusive bound
\* paired with an exclusive one.
ConflictWitness ==
    \E i \in DOMAIN outs :
        /\ Called(outs[i])
        /\ outs[i].doc = NumberDoc("integer", Num(Scale), Nil, Nil, Num(Scale))
        /\ outs[i].err = BoundsError

\* ---------------------------------------------------------------- integer range
\* An integer document that passes validation and whose effective bounds
\* are in order.
InOrder(d) ==
    /\ d \in SignedDocs
    /\ IsInteger(d)
    /\ ~Contradicted(d)
    /\ EffectiveMin(d) <= EffectiveMax(d)

MultipleDocs ==
    {Obj(Typed("integer") @@ ("minimum" :> N(lo)) @@ ("maximum" :> N(hi))
         @@ ("multipleOf" :> N(m))) :
        lo \in (-MaxNum)..MaxNum, hi \in (-MaxNum)..MaxNum, m \in 1..MaxNum}

NextMultiple == Generating(0..(RandMod - 1), MultipleDocs, OrderEnvs)

SpecMultiple == Init /\ [][NextMultiple]_vars

\* Some multiple of m lies in lo..hi.
HasMultiple(lo, hi, m) == \E k \in lo..hi : k % m = 0

\* C26: for an integer schema with whole minimum and maximum and a whole
\* positive multipleOf m that has a multiple between them, every call
\* returns a multiple of m between minimum and maximum.
MultipleWithinBounds ==
    \A i \in DOMAIN outs :
        (outs[i].op \in ValueOps /\ outs[i].doc \in MultipleDocs) =>
            LET lo == outs[i].doc.v["minimum"].v \div Scale
                hi == outs[i].doc.v["maximum"].v \div Scale
                m == outs[i].doc.v["multipleOf"].v \div Scale
            IN  HasMultiple(lo, hi, m) =>
                    /\ outs[i].err = ""
                    /\ outs[i].val.t = "int"
                    /\ outs[i].val.v % m = 0
                    /\ lo <= outs[i].val.v /\ outs[i].val.v <= hi

\* The number drawn was 1, its nearest multiple 0 was below the minimum
\* and was raised by one multiple: 3 from the range 1..3 with multipleOf 3.
MultipleWitness ==
    \E i \in DOMAIN outs :
        /\ Returned(outs[i])
        /\ outs[i].doc = Obj(Typed("integer") @@ ("minimum" :> N(1)) @@ ("maximum" :> N(3))
                             @@ ("multipleOf" :> N(3)))
        /\ RandNext(outs[i].pre.rand) % 3 = 0
        /\ outs[i].val = Itg(3)

\* ---------------------------------------------------------------- array length
\* C30: no call on an array schema that parses and passes validation,
\* negative minItems and maxItems included, computes a negative element
\* count: the call returns a value or an error and does not panic.
CountNeverNegative ==
    \A i \in DOMAIN outs :
        (Called(outs[i]) /\ outs[i].doc \in ArrDocs /\ ~Contradicted(outs[i].doc)) =>
            outs[i].err # Panic

\* ---------------------------------------------------------------- refused calls
\* Documents that do not parse or do not pass validation, and sound ones.
RefuseDocs ==
    {Malformed} \cup BadDocs
    \cup {ObjectDoc(("cat" :> bad) @@ ("id" :> BooleanDoc), <<"id">>) : bad \in BadDocs}
    \cup {BooleanDoc, IntegerDoc(0, 3), StringDoc(4, 5), TwoFields}

\* The call of o was refused: its document does not parse or does not pass
\* validation.
Refused(o) == Called(o) /\ (~ParseSchema(o.doc).ok \/ Contradicted(o.doc))

\* Generator.Generate called next after a refused call; first is the
\* instance as it was before the refused call.
Retry(i, doc, env) ==
    /\ \E r \in {Generation(gens[i], Background, doc, env)} :
        /\ gens' = [gens EXCEPT ![i] = r.c.g]
        /\ outs' = [outs EXCEPT ![i] =
                        [op |-> "Retried", first |-> outs[i].pre, doc |-> doc, env |-> env,
                         val |-> r.val, err |-> r.err]]
    /\ UNCHANGED vout

NextRefuse ==
    \E i \in DOMAIN gens :
        \/ \E seed \in Seeds : SetSeed(i, seed)
        \/ \E depth \in Depths : SetMaxDepth(i, depth)
        \/ \E all \in BOOLEAN : SetGenerateAllFields(i, all)
        \/ Ready(i) /\ \E doc \in RefuseDocs, env \in OrderEnvs : Generate(i, doc, env)
        \/ Ready(i) /\ \E doc \in RefuseDocs, env \in OrderEnvs : GenerateBytes(i, doc, env)
        \/ Ready(i) /\ \E doc \in RefuseDocs, env \in OrderEnvs, ctx \in Contexts :
                          GenerateWithContext(i, ctx, doc, env)
        \/ Refused(outs[i]) /\ \E doc \in RefuseDocs, env \in OrderEnvs : Retry(i, doc, env)

SpecRefuse == Init /\ [][NextRefuse]_vars

\* C28: a refused call leaves the instance as it was, seed, maxDepth,
\* generateAllFields and streams, and the Generate call made next returns
\* the value and error, and leaves the instance in the state, of the same
\* call made with the refused call left out.
RefusalFrame ==
    \A i \in DOMAIN outs :
        /\ Refused(outs[i]) => gens[i] = outs[i].pre
        /\ outs[i].op = "Retried" =>
               \E alone \in {Generation(outs[i].first, Background, outs[i].doc, outs[i].env)} :
                   /\ outs[i].val = alone.val
                   /\ outs[i].err = alone.err
                   /\ gens[i] = alone.c.g

\* A call after a refused one returned a value drawn from the streams.
RefusalFrameWitness ==
    \E i \in DOMAIN outs :
        /\ outs[i].op = "Retried"
        /\ outs[i].doc = TwoFields
        /\ outs[i].err = ""
        /\ gens[i] # outs[i].first

\* ---------------------------------------------------------------- termination
\* A Generate call taken one step at a time.  The pending work is a stack
\* of frames: a call of generate on a schema at a depth, a call of
\* generateByType, the loop of randomString with `have` characters of
\* `length`, one word of an array, the additionalProperties part of an
\* object, and a failure that is met when its turn comes.
Frame(k, schema, depth, have, length, err) ==
    [k |-> k, schema |-> schema, depth |-> depth, have |-> have, length |-> length,
     err |-> err]
CallFrame(schema, depth) == Frame("call", schema, depth, 0, 0, "")
TypeFrame(schema, depth) == Frame("type", schema, depth, 0, 0, "")
WordsFrame(have, length) == Frame("words", Nil, 0, have, length, "")
WordFrame == Frame("word", Nil, 0, 0, 0, "")
ExtrasFrame(schema, depth) == Frame("extras", schema, depth, 0, 0, "")
FailFrame(err) == Frame("fail", Nil, 0, 0, 0, err)

\* What a step leaves: the run, the frames it puts in place of the one it
\* took, and the error that ends the call.
Moved(c, push) == [c |-> c, push |-> push, err |-> ""]
Failed(c, err) == [c |-> c, push |-> <<>>, err |-> err]
Finished(r) == IF r.err # "" THEN Failed(r.c, r.err) ELSE Moved(r.c, <<>>)

\* The length of the string with the word added, and the same with a
\* word that adds nothing.
Stall(have, word) == have
Grow(have, word) == have + Len(word)

\* generateString up to the loop of randomString
StringFrames(c, schema) ==
    IF schema.Pattern # "" \/ schema.Format # "" THEN Finished(generateString(c, schema))
    ELSE LET minLen == IF ~IsNil(schema.MinLength) THEN schema.MinLength.v ELSE 0
             maxLen0 == IF ~IsNil(schema.MaxLength) THEN schema.MaxLength.v ELSE 20
             maxLen == IF minLen > maxLen0 THEN minLen ELSE maxLen0
         IN  Let(IF maxLen > minLen THEN Intn(c, maxLen - minLen + 1)
                 ELSE [v |-> 0, c |-> c], LAMBDA d :
             IF minLen + d.v <= 3 THEN Moved(randomString(d.c, minLen + d.v).c, <<>>)
             ELSE Let(Word(d.c), LAMBDA first :
                      Moved(first.c, <<WordsFrame(Len(first.v), minLen + d.v)>>)))

\* generateObject: a call per generated field, then the extra entries
ObjectFrames(c, schema, depth) ==
    IF IsNil(schema.Properties) THEN Moved(c, <<>>)
    ELSE LET names == SelectSeq(Range(schema.Properties.v, c.env.ord),
                                LAMBDA name : Included(c, schema, name))
         IN  Moved(c, [j \in 1..Len(names) |->
                          CallFrame(schema.Properties.v[names[j]], depth + 1)]
                      \o <<ExtrasFrame(schema, depth)>>)

\* The additionalProperties part of generateObject, in one piece.
ExtrasStep(c, schema, depth) ==
    LET ap == schema.AdditionalProperties
    IN  IF ~Synthesizes(c, schema) THEN Moved(c, <<>>)
        ELSE CASE ap.t = "bool" /\ ap.v ->
                     Let(Intn(c, 3), LAMBDA d : Finished(extraWords(d.c, d.v, <<>>)))
               [] ap.t = "obj" /\ ParseSchema(ap).ok ->
                     Let(Intn(c, 3), LAMBDA d :
                         Finished(extraValues(d.c, ParseSchema(ap).s, d.v, <<>>, depth)))
               [] OTHER -> Moved(c, <<>>)

\* generateArray: the count, then a call or a word per element
ArrayFrames(c, schema, depth) ==
    LET minItems == ArrayMin(schema)
        maxItems == ArrayMax(schema)
        items == schema.Items
    IN  Let(IF maxItems > minItems THEN Intn(c, maxItems - minItems + 1)
            ELSE [v |-> 0, c |-> c], LAMBDA d :
        LET length == minItems + d.v
        IN  IF length < 0 THEN Failed(d.c, Panic)
            ELSE IF IsNil(items) THEN Moved(d.c, [j \in 1..length |-> WordFrame])
            ELSE CASE items.t = "obj" ->
                        IF ~ParseSchema(items).ok
                        THEN Failed(d.c, "failed to parse items schema")
                        ELSE Moved(d.c, [j \in 1..length |->
                                            CallFrame(ParseSchema(items).s, depth + 1)])
                   [] items.t = "arr" ->
                        Moved(d.c, [j \in 1..length |->
                            IF j > Len(items.v) THEN WordFrame
                            ELSE IF ParseSchema(items.v[j]).ok
                            THEN CallFrame(ParseSchema(items.v[j]).s, depth + 1)
                            ELSE FailFrame("failed to parse items schema at index")])
                   [] OTHER -> Failed(d.c, "unsupported items type"))

\* generateByType: a schema of several types is dispatched again with the
\* one type chosen.
TypeStep(c, schema, depth) ==
    LET types == GetTypes(schema.Type)
    IN  IF Len(types) > 1
        THEN Let(Intn(c, Len(types)), LAMBDA d :
                 Moved(d.c, <<TypeFrame([schema EXCEPT !.Type =
                                  StringOrArray(types[d.v + 1], <<>>, FALSE)], depth)>>))
        ELSE IF Len(types) = 0 THEN Failed(c, "no type specified")
        ELSE CASE types[1] = "string" -> StringFrames(c, schema)
               [] types[1] = "number" -> Finished(generateNumber(c, schema, FALSE))
               [] types[1] = "integer" -> Finished(generateNumber(c, schema, TRUE))
               [] types[1] = "boolean" -> Finished(generateBoolean(c))
               [] types[1] = "object" -> ObjectFrames(c, schema, depth)
               [] types[1] = "array" -> ArrayFrames(c, schema, depth)
               [] types[1] = "null" -> Moved(c, <<>>)
               [] OTHER -> Failed(c, "unsupported type")

\* generateWithContext under context.Background(): the branch of a
\* composition is a call at the same depth.
CallStep(c, schema, depth) ==
    IF DepthExceeded(c, depth) THEN Failed(c, DepthError)
    ELSE IF ~IsNil(schema.Const) THEN Moved(c, <<>>)
    ELSE IF Len(schema.Enum) > 0 THEN Finished(PickEnum(c, schema))
    ELSE IF Len(schema.OneOf) > 0
    THEN Let(Intn(c, Len(schema.OneOf)), LAMBDA d :
             Moved(d.c, <<CallFrame(schema.OneOf[d.v + 1], depth)>>))
    ELSE IF Len(schema.AnyOf) > 0
    THEN Let(Intn(c, Len(schema.AnyOf)), LAMBDA d :
             Moved(d.c, <<CallFrame(schema.AnyOf[d.v + 1], depth)>>))
    ELSE IF Len(schema.AllOf) > 0 THEN Moved(c, <<CallFrame(schema.AllOf[1], depth)>>)
    ELSE IF ~IsEmpty(schema.Type) THEN TypeStep(c, schema, depth)
    ELSE IF ~IsNil(schema.Properties) THEN ObjectFrames(c, schema, depth)
    ELSE IF ~IsNil(schema.Items) THEN ArrayFrames(c, schema, depth)
    ELSE Moved(c, <<>>)

\* The step that frame f is waiting for.
Advance(c, f) ==
    CASE f.k = "call" -> CallStep([c EXCEPT !.calls = @ + 1], f.schema, f.depth)
      [] f.k = "type" -> TypeStep(c, f.schema, f.depth)
      [] f.k = "words" ->
            IF f.have < f.length
            THEN Let(Word(c), LAMBDA w :
                     Moved(w.c, <<WordsFrame(Grow(f.have, w.v), f.length)>>))
            ELSE Moved(c, <<>>)
      [] f.k = "word" -> Moved(Word(c).c, <<>>)
      [] f.k = "extras" -> ExtrasStep(c, f.schema, f.depth)
      [] OTHER -> Failed(c, f.err)

Walking(i) == outs[i].op = "walking"

\* What a walked call leaves in outs[i] when it returns.
Walked(pre, doc, env, err, calls, draws) ==
    [op |-> "Walked", pre |-> pre, doc |-> doc, env |-> env, err |-> err,
     calls |-> calls, draws |-> draws]

\* Generator.Generate up to its call of g.generate(schema, 0)
Enter(i, doc, env) ==
    \E parsed \in {ParseSchema(doc)} :
        /\ outs' = [outs EXCEPT ![i] =
                      IF ~parsed.ok
                      THEN Walked(gens[i], doc, env, "failed to parse schema", 0, 0)
                      ELSE IF ~IsNil(Validate(parsed.s, env.ord))
                      THEN Walked(gens[i], doc, env, "invalid schema", 0, 0)
                      ELSE [op |-> "walking", pre |-> gens[i], doc |-> doc, env |-> env,
                            stack |-> <<CallFrame(parsed.s, 0)>>, calls |-> 0, draws |-> 0]]
        /\ UNCHANGED <<gens, vout>>

\* One step of the call in progress on instance i, or its return.
Walk(i) ==
    LET o == outs[i]
    IN  /\ Walking(i)
        /\ IF Len(o.stack) = 0
           THEN /\ outs' = [outs EXCEPT ![i] =
                              Walked(o.pre, o.doc, o.env, "", o.calls, o.draws)]
                /\ UNCHANGED <<gens, vout>>
           ELSE \E a \in {Advance(Run(gens[i], o.env, Background), Head(o.stack))} :
                    /\ gens' = [gens EXCEPT ![i] = a.c.g]
                    /\ outs' = [outs EXCEPT ![i] =
                                  IF a.err # ""
                                  THEN Walked(o.pre, o.doc, o.env, a.err,
                                              o.calls + a.c.calls, o.draws + a.c.draws)
                                  ELSE [o EXCEPT !.stack = a.push \o Tail(@),
                                                 !.calls = @ + a.c.calls,
                                                 !.draws = @ + a.c.draws]]
                    /\ UNCHANGED vout

\* Chains of compositions, schemas of several types, plain strings long
\* enough for the loop of words, nested objects and arrays, a tuple.
SeveralTypes(types) == Obj(("type" :> Strs(types)) @@ ("minLength" :> N(4)) @@ ("maxLength" :> N(MaxLen)))
WalkDocs ==
    Chains
    \cup {Wrapped(kw, n, StringDoc(4, MaxLen)) : kw \in Compositions, n \in 1..MaxNesting}
    \cup {SeveralTypes(<<"string", "integer">>), SeveralTypes(<<"boolean", "string", "null">>),
          Obj("oneOf" :> Arr(<<SeveralTypes(<<"string", "array">>), BooleanDoc>>))}
    \cup {StringDoc(lo, MaxLen) : lo \in 0..MaxLen}
    \cup {NestedObjects(n) : n \in 1..MaxNesting}
    \cup {NestedArrays(n) : n \in 1..MaxNesting}
    \cup {TwoFields, Malformed, IntegerDoc(3, 0),
          Obj(Typed("array") @@ ("items" :> Arr(<<StringDoc(4, 5), BooleanDoc>>))
              @@ ("minItems" :> N(3)))}

NextWalk ==
    \E i \in DOMAIN gens :
        \/ ~Walking(i) /\ \E seed \in Seeds : SetSeed(i, seed)
        \/ ~Walking(i) /\ \E depth \in Depths : SetMaxDepth(i, depth)
        \/ Ready(i) /\ \E doc \in WalkDocs, env \in OrderEnvs : Enter(i, doc, env)
        \/ Walk(i)

\* The goroutine that runs the call keeps running it.
SpecWalk == Init /\ [][NextWalk]_vars /\ WF_vars(\E i \in DOMAIN gens : Walk(i))

\* A walked call ends as the call made in one piece: with an error or
\* without, after as many recursive calls and draws, the streams in the
\* same state.
WalkAgrees ==
    \A i \in DOMAIN outs :
        outs[i].op = "Walked" =>
            \E whole \in {Generation(outs[i].pre, Background, outs[i].doc, outs[i].env)} :
                /\ (outs[i].err = "") = (whole.err = "")
                /\ outs[i].calls = whole.c.calls
                /\ outs[i].draws = whole.c.draws
                /\ gens[i] = whole.c.g

\* C27: every Generate call that has started returns, with a value or an
\* error.
Termination == (outs[1].op = "walking") ~> (outs[1].op = "Walked")

\* A call on the longest chain of compositions around a plain string has
\* returned without error.
TerminationWitness ==
    \E i \in DOMAIN outs, kw \in Compositions :
        /\ outs[i].op = "Walked"
        /\ outs[i].doc = Wrapped(kw, MaxNesting, StringDoc(4, MaxLen))
        /\ outs[i].err = ""
        /\ outs[i].calls = MaxNesting + 1

====
